---- MODULE Spec2Model ----
(***************************************************************************)
(* Port-forward and remote-session lifecycle of dockim.                    *)
(*                                                                         *)
(*   Spec      the auto-discovery loop (auto_port_forward.rs) of a         *)
(*             `dockim exec` process, the relay containers it starts and   *)
(*             stops through docker, `dockim port add/rm` run by other     *)
(*             invocations on the same session, and foreign processes      *)
(*             binding host ports.                                         *)
(*   SpecNvim  the client-retry loop of the remote Neovim session          *)
(*             (cli/neovim.rs).                                            *)
(*   SpecPort  choose_host_port / find_available_host_port, probe by       *)
(*             probe.                                                      *)
(*   SpecCli   `dockim port add / rm / rm --all / ls` invocations on one   *)
(*             session (cli/port.rs), with relays started outside dockim.  *)
(*   SpecSess  `dockim neovim`: main's select! on Ctrl+C around            *)
(*             run_neovim_server_and_attach and its retry loop.            *)
(*   SpecCompose  compute_compose_project_name (devcontainer.rs).          *)
(*   SpecClip  spawn_clipboard_server and the run_server task it spawns    *)
(*             (clipboard.rs).                                             *)
(***************************************************************************)
EXTENDS Integers, Sequences, FiniteSets, TLC

VARIABLES
    \* ---- docker and the host -------------------------------------------
    containers,     \* running relay (socat) containers of the session
    hostBound,      \* host ports bound by processes other than relays
    \* ---- the `dockim exec` process ---------------------------------------
    exclude_ports,  \* run_auto_forward's exclude_ports argument
    pc,             \* where the run_auto_forward task is
    timerFired,     \* the select!'s 2 s sleep has elapsed
    shutdownSent,   \* AutoPortForwarder::drop has sent on shutdown_tx
    rt,             \* the tokio runtime of the process: running / shutdown
    forwarded,      \* container_port -> host_port (the guard is implied)
    listening_set,  \* this iteration's filtered poll result
    todo,           \* ports of listening_set the `for` has not visited yet
    cur,            \* the port being forwarded: <<container_port, host_port>>
    closed_ports,   \* closed_ports not yet removed
    \* ---- observation (not program state) ---------------------------------
    iters,          \* what the last two successful polls did
    exitN,          \* number of guards held when the loop was left (-1: not yet)
    exitDrops,      \* PortForwardGuard::drop calls made since the loop was left
    collided,       \* some forward_port was refused because the host port was taken
    detectFailed,   \* the loop waits in the sleep that follows a poll that returned Err
    \* ---- the `dockim neovim` process: run_neovim_client_with_retry ---------
    background,     \* config.remote.background
    npc,            \* where the retry loop is
    retry_interval, \* the loop's retry_interval, in seconds
    server,         \* the nvim server process in the container: alive / exited
    lastRun,        \* the last client attempt: what it did and what was reported
    sleeps,         \* observation: the backoff sleeps made so far, in order
    launches,       \* observation: the number of client attempts launched
    reclassified,   \* observation: a status-0 client was reported as a failure
    \* ---- a choose_host_port call --------------------------------------------
    cpc,            \* where the call is
    preferred,      \* its argument container_port, the preferred host port
    probes,         \* test-binds find_available_host_port has made
    chosen,         \* the port returned (0: none yet)
    how,            \* observation: the path that returned it
    prefOk,         \* observation: the preferred port test-bound
    failed,         \* observation: probes of find_available_host_port that did not bind
    chosenAvail,    \* observation: the returned port was free at its last probe
    \* ---- `dockim port` invocations on the session ---------------------------
    cmd,            \* the `port rm --all` in progress: idle / rm_all
    ports,          \* remove_all_forwarded_ports: host ports of `ports` not visited yet
    listed,         \* the result of the last list_forwarded_ports (`port ls`)
    lastStop,       \* observation: the last stop_forward_port call and its outcome
    rmAll,          \* observation: what the last remove_all_forwarded_ports did
    lastCmd,        \* observation: the last `port add` / `port rm` and what it did
    \* ---- the `dockim neovim` process: main and run_neovim_server_and_attach ---
    neovim_args,    \* NeovimArgs: no_remote_ui, host_port, container_port
    session_ports,  \* main's (host_port, container_port)
    listen,         \* the port of the --listen address the server was spawned with
    direct_status,  \* the exit status of the directly executed nvim (-1: none)
    spc,            \* where main / run_neovim_server_and_attach is
    spawned,        \* dc.spawn returned the server child (the defer! is armed)
    guard,          \* the session's PortForwardGuard: none / held / forgotten / dropped
    sel,            \* main's select!: the Ctrl+C signal and who was polled since
    result,         \* what neovim::main returned: none / ok / err
    exitPath,       \* observation: the path the call was left by
    killSent,       \* observation: the defer! called kill() on the server child
    waited,         \* observation: the defer! called wait() on the server child
    cleanupOk,      \* observation: that kill() and wait() both returned Ok
    firedIn,        \* observation: what the call was awaiting when Ctrl+C fired
    \* ---- a compute_compose_project_name call ----------------------------------
    inputs,         \* what the call reads: environment, .env, devcontainer.json, files
    stage,          \* where the call is: env / dotenv / compose / dir / done
    project,        \* what the call returned, and from which source
    \* ---- a spawn_clipboard_server call and the task it spawns ---------------
    clip_pc,        \* where spawn_clipboard_server (and then its caller) is
    server_pc,      \* where the spawned run_server task is
    port_mutex,     \* the u16 in `port: Arc<Mutex<u16>>`
    listener,       \* the port the OS gave the TcpListener (0: not bound)
    info_port,      \* SpawnedInfo.port as returned (-1: not returned yet)
    accepted        \* observation: connections accepted, <<allowed?, ...>>

varsAuto == <<containers, hostBound, exclude_ports, pc, timerFired, shutdownSent,
              rt, forwarded, listening_set, todo, cur, closed_ports, iters,
              exitN, exitDrops, collided, detectFailed>>

varsNvim == <<background, npc, retry_interval, server, lastRun, sleeps, launches,
              reclassified>>

varsPort == <<cpc, preferred, probes, chosen, how, prefOk, failed, chosenAvail>>

varsCli == <<cmd, ports, listed, lastStop, rmAll, lastCmd>>

varsMain == <<neovim_args, session_ports, listen, direct_status>>

varsSess == <<spc, spawned, guard, sel, result, exitPath, killSent, waited, cleanupOk,
              firedIn, varsMain>>

varsCompose == <<inputs, stage, project>>

varsClip == <<clip_pc, server_pc, port_mutex, listener, info_port, accepted>>

vars == <<varsAuto, varsNvim, varsPort, varsCli, varsSess, varsCompose, varsClip>>

-----------------------------------------------------------------------------
(* Inputs                                                                  *)

\* The container id `devcontainer inspect` reports for the session.
ContainerId == "c1"

\* The container's address on its docker network.
ContainerIp == "172.17.0.2"

\* What detect_listening_ports may report on a poll.
PollChoices == {{3000, 54321, 80}, {54321, 80}, {1024, 1025}, {}}

\* exclude_ports values a caller of AutoPortForwarder::start passes.
ExcludeChoices == {{}, {54321}}

\* The ports rng.random_range(50000..60000) is sampled at.
ProbePorts == {50000, 54321, 59999}

\* Host ports other processes on the host bind and release.
ForeignPorts == {50000}

\* `dockim port add <host>:<container>` descriptors used on the session.
ManualAdds == {<<"3000", "3000">>}

\* `dockim port rm <host>` arguments used on the session.
ManualRms == {"3000", "50000"}

AllPorts == (UNION PollChoices) \cup ProbePorts \cup ForeignPorts

\* The port number docker reads from the host part of `-p <host>:1234`.
PortNumber(s) == CHOOSE n \in AllPorts : ToString(n) = s

Last(s) == s[Len(s)]

-----------------------------------------------------------------------------
(* devcontainer.rs: relay containers                                       *)

\* "dockim-{container_id}-socat-{host_port}", as its '-'-separated segments.
socat_container_name(host_port) == <<"dockim", ContainerId, "socat", host_port>>

\* "TCP-CONNECT:{ip}:{container_port}", as its ':'-separated fields.
socat_target(container_port) == <<"TCP-CONNECT", ContainerIp, container_port>>

\* A host port is taken when a relay publishes it or another process holds it.
HostPortInUse(cs, bound, p) ==
    p \in bound \/ \E c \in cs : PortNumber(c.publish) = p

\* DockerRunSucceeds for a docker that refuses nothing.
DockerRunSucceeds_Always(cs, bound, name, host_port) == TRUE

\* `docker run -d --rm --name <name> -p <host_port>:1234 ...`: docker refuses a
\* name that is in use and a host port that is taken.
DockerRunSucceeds(cs, bound, name, host_port) ==
    /\ \A c \in cs : c.name # name
    /\ ~HostPortInUse(cs, bound, PortNumber(host_port))

\* A refused `docker run` without --rm: a container docker had created before
\* the start failed stays, stopped, and keeps the name.
docker_run_refused_NoRm(cs, c) ==
    IF \E x \in cs : x.name = c.name THEN cs ELSE cs \cup {[c EXCEPT !.by = "created"]}

\* A refused `docker run -d --rm`: a name in use is refused before anything is
\* created, and a container whose start failed (the host port is taken) is
\* removed again by --rm. Nothing is left.
docker_run_refused(cs, c) == cs

\* The container forward_port launches.
RelayContainer(host_port, container_port, who) ==
    [name    |-> socat_container_name(host_port),
     publish |-> host_port,
     target  |-> socat_target(container_port),
     by      |-> who,
     cport   |-> container_port]

\* `docker stop <name>`: the container of that name, if any, stops and (--rm)
\* is removed; with no such container the command fails and nothing changes.
DockerStop(cs, name) == {c \in cs : c.name # name}

\* DockerStopSucceeds for a `docker stop` that never reports a missing container.
DockerStopSucceeds_Always(cs, name) == TRUE

\* `docker stop <name>` exits with status 0 iff a container of that name runs;
\* exec::exec turns any other status into Err.
DockerStopSucceeds(cs, name) == \E c \in cs : c.name = name

\* HostPortOfName with `.next()` for `.next_back()`: the first segment.
HostPortOfName_First(name) == name[1]

\* list_forwarded_ports: the host port is the last '-' segment of the name.
HostPortOfName(name) == Last(name)

\* ContainerPortOfCommand with `.nth(0)` for `.nth(1)`: the field after the
\* "TCP-CONNECT:" prefix, which is the ip.
ContainerPortOfCommand_Ip(target) ==
    IF Len(target) >= 2 /\ target[1] = "TCP-CONNECT" THEN target[2] ELSE "unknown"

\* list_forwarded_ports: the container port is the field after the ip of the
\* TCP-CONNECT argument, "unknown" when the argument has no such field.
ContainerPortOfCommand(target) ==
    IF Len(target) >= 3 /\ target[1] = "TCP-CONNECT" THEN target[3] ELSE "unknown"

\* list_forwarded_ports: one ForwardedPort per relay container of the session.
list_forwarded_ports(cs) ==
    [c \in cs |-> [host_port      |-> HostPortOfName(c.name),
                   container_port |-> ContainerPortOfCommand(c.target)]]

\* is_host_port_available that takes every port for free.
is_host_port_available_Always(cs, bound, port) == TRUE

\* TcpListener::bind(("127.0.0.1", port)).is_ok()
is_host_port_available(cs, bound, port) == ~HostPortInUse(cs, bound, port)

\* find_available_host_port: Ok(p) for a sampled port that test-binds; Err when
\* every one of the 1000 draws hit a port that did not.
find_available_host_port(cs, bound) ==
    {[ok |-> TRUE, port |-> p] : p \in {q \in ProbePorts : is_host_port_available(cs, bound, q)}}
    \cup (IF \E q \in ProbePorts : ~is_host_port_available(cs, bound, q)
          THEN {[ok |-> FALSE, port |-> 0]} ELSE {})

-----------------------------------------------------------------------------
(* auto_port_forward.rs                                                    *)

\* Candidate without the exclude_ports test.
Candidate_NoExclude(p, exclude) == p > 1024

\* Candidate with `>=` for `>`.
Candidate_Inclusive(p, exclude) == p >= 1024 /\ p \notin exclude

\* The candidate filter of run_auto_forward.
Candidate(p, exclude) == p > 1024 /\ p \notin exclude

\* ClosedPorts without the filter: every forwarded port.
ClosedPorts_All(fwd, ls) == DOMAIN fwd

\* ClosedPorts with the `!` of the filter lost: the ports still listening.
ClosedPorts_Inverted(fwd, ls) == {p \in DOMAIN fwd : p \in ls}

\* closed_ports: the forwarded ports that are no longer candidates.
ClosedPorts(fwd, ls) == {p \in DOMAIN fwd : p \notin ls}

\* choose_host_port: the container port when it test-binds, else a port from
\* find_available_host_port, else (unwrap_or) the container port again.
choose_host_port(cs, bound, container_port) ==
    IF is_host_port_available(cs, bound, container_port)
    THEN {container_port}
    ELSE {IF r.ok THEN r.port ELSE container_port : r \in find_available_host_port(cs, bound)}

NoIter == [poll |-> {}, startKeys |-> {}, fwd |-> {}, started |-> {}, dropped |-> {},
           dropFailed |-> {}, failedFwd |-> {}]

\* The observation of the iteration in progress, with one field changed.
Note(field, p) ==
    IF iters = <<>> THEN iters
    ELSE [iters EXCEPT ![Len(iters)][field] = @ \cup {p}]

\* The points where the task is suspended in an .await.
AwaitPoints == {"select", "detect", "forward", "fwd_call", "fwd_ret"}

\* PortForwardGuard::drop: `docker stop` of the guard's container, its result
\* ignored. While the runtime is shutting down the block_on inside the drop may
\* not get its command run, so the stop may or may not take effect.
GuardDropResults(cs, name) ==
    IF rt = "running" THEN {DockerStop(cs, name)} ELSE {DockerStop(cs, name), cs}

\* GuardDropOutcome for a drop that unwraps the result of the stop.
GuardDropOutcome_Unwrap(stopOk) == IF stopOk THEN "dropped" ELSE "panicked"

\* PortForwardGuard::drop: `let _ = exec::exec(&["docker", "stop", ..]).await`,
\* the drop returns normally whatever the stop did.
GuardDropOutcome(stopOk) == "dropped"

Quiet ==
    UNCHANGED <<hostBound, exclude_ports, shutdownSent, rt, varsNvim, varsPort,
                varsCompose, varsClip, varsCli,
                varsSess>>

\* select!: the sleep elapses while the task waits.
TimerFire ==
    /\ pc = "select" /\ ~timerFired /\ rt = "running"
    /\ timerFired' = TRUE
    /\ detectFailed' = FALSE
    /\ UNCHANGED <<containers, pc, forwarded, listening_set, todo, cur, closed_ports,
                   iters, exitN, exitDrops, collided>>
    /\ Quiet

\* select!: the shutdown branch, `break`.
SelectShutdown ==
    /\ pc = "select" /\ shutdownSent /\ rt = "running"
    /\ pc' = "cleanup"
    /\ exitN' = Cardinality(DOMAIN forwarded)
    /\ detectFailed' = FALSE
    /\ UNCHANGED <<containers, timerFired, forwarded, listening_set, todo, cur,
                   closed_ports, iters, exitDrops, collided>>
    /\ Quiet

\* select!: the sleep branch.
SelectSleep ==
    /\ pc = "select" /\ timerFired /\ rt = "running"
    /\ pc' = "detect"
    /\ UNCHANGED <<containers, timerFired, forwarded, listening_set, todo, cur,
                   closed_ports, iters, exitN, exitDrops, collided, detectFailed>>
    /\ Quiet

\* detect_listening_ports returned Ok(listening).
DetectOk ==
    /\ pc = "detect" /\ rt = "running"
    /\ \E listening \in PollChoices :
         /\ listening_set' = {p \in listening : Candidate(p, exclude_ports)}
         /\ iters' = (IF Len(iters) = 2 THEN Tail(iters) ELSE iters)
                       \o <<[NoIter EXCEPT !.poll = listening,
                                           !.startKeys = DOMAIN forwarded]>>
    /\ todo' = listening_set'
    /\ pc' = "forward"
    /\ UNCHANGED <<containers, timerFired, forwarded, cur, closed_ports,
                   exitN, exitDrops, collided, detectFailed>>
    /\ Quiet

\* An Err arm that goes on with an empty map, its guards leaked.
continue_on_err_Clear(fwd) == <<>>

\* Err(_) => continue: `forwarded` is what it was.
continue_on_err(fwd) == fwd

\* detect_listening_ports returned Err: `continue`.
DetectErr ==
    /\ pc = "detect" /\ rt = "running"
    /\ pc' = "select"
    /\ timerFired' = FALSE
    /\ forwarded' = continue_on_err(forwarded)
    /\ detectFailed' = TRUE
    /\ UNCHANGED <<containers, listening_set, todo, cur, closed_ports,
                   iters, exitN, exitDrops, collided>>
    /\ Quiet

\* A contains_key that finds nothing.
contains_key_Never(fwd, p) == FALSE

\* forwarded.contains_key(&container_port)
contains_key(fwd, p) == p \in DOMAIN fwd

\* for &container_port in &listening_set: already forwarded, `continue`.
ForwardSkip ==
    /\ pc = "forward" /\ rt = "running"
    /\ \E p \in todo :
         /\ contains_key(forwarded, p)
         /\ todo' = todo \ {p}
    /\ UNCHANGED <<containers, pc, timerFired, forwarded, listening_set, cur,
                   closed_ports, iters, exitN, exitDrops, collided, detectFailed>>
    /\ Quiet

\* for &container_port in &listening_set: choose_host_port.
ForwardChoose ==
    /\ pc = "forward" /\ rt = "running"
    /\ \E p \in todo :
         /\ ~contains_key(forwarded, p)
         /\ \E h \in choose_host_port(containers, hostBound, p) : cur' = <<p, h>>
         /\ todo' = todo \ {p}
    /\ pc' = "fwd_call"
    /\ UNCHANGED <<containers, timerFired, forwarded, listening_set, closed_ports,
                   iters, exitN, exitDrops, collided, detectFailed>>
    /\ Quiet

\* An Err arm that leaves the `for`: the ports not visited yet are dropped.
after_forward_err_Break(rest) == {}

\* Err(e) => { log!(..) }: the `for` goes on with the ports not visited yet.
after_forward_err(rest) == rest

\* forward_port failed: before docker run (inspect, network lookup) or because
\* docker refused the container. Logged; the `for` goes on.
ForwardFail ==
    /\ pc = "fwd_call" /\ rt = "running"
    /\ \E refused \in BOOLEAN :
         /\ refused => ~DockerRunSucceeds(containers, hostBound,
                          socat_container_name(ToString(cur[2])), ToString(cur[2]))
         /\ collided' = (collided \/ refused)
    /\ iters' = [Note("fwd", cur[1]) EXCEPT ![Len(iters)].failedFwd = @ \cup {cur[1]}]
    /\ pc' = "forward"
    /\ cur' = <<>>
    /\ todo' = after_forward_err(todo)
    /\ UNCHANGED <<containers, timerFired, forwarded, listening_set,
                   closed_ports, exitN, exitDrops, detectFailed>>
    /\ Quiet

\* forward_port: docker run started the relay; the call awaits its exit.
ForwardLaunch ==
    /\ pc = "fwd_call" /\ rt = "running"
    /\ DockerRunSucceeds(containers, hostBound,
                         socat_container_name(ToString(cur[2])), ToString(cur[2]))
    /\ containers' = containers \cup
                       {RelayContainer(ToString(cur[2]), ToString(cur[1]), "auto")}
    /\ iters' = Note("started", cur[1])
    /\ pc' = "fwd_ret"
    /\ UNCHANGED <<timerFired, forwarded, listening_set, todo, cur, closed_ports,
                   exitN, exitDrops, collided, detectFailed>>
    /\ Quiet

\* forward_port returned Ok(guard): forwarded.insert.
ForwardReturn ==
    /\ pc = "fwd_ret" /\ rt = "running"
    /\ forwarded' = [p \in DOMAIN forwarded \cup {cur[1]} |->
                       IF p = cur[1] THEN cur[2] ELSE forwarded[p]]
    /\ iters' = Note("fwd", cur[1])
    /\ pc' = "forward"
    /\ cur' = <<>>
    /\ UNCHANGED <<containers, timerFired, listening_set, todo, closed_ports,
                   exitN, exitDrops, collided, detectFailed>>
    /\ Quiet

\* The `for` over listening_set is over: closed_ports is collected.
ForwardEnd ==
    /\ pc = "forward" /\ rt = "running"
    /\ todo = {}
    /\ closed_ports' = ClosedPorts(forwarded, listening_set)
    /\ pc' = "unforward"
    /\ UNCHANGED <<containers, timerFired, forwarded, listening_set, todo, cur,
                   iters, exitN, exitDrops, collided, detectFailed>>
    /\ Quiet

\* A removal that drops the guard and leaves the key in the map.
remove_Keep(fwd, p) == fwd

\* forwarded.remove(&container_port): the map without the key.
remove(fwd, p) == [q \in DOMAIN fwd \ {p} |-> fwd[q]]

\* for container_port in closed_ports: forwarded.remove, the guard is dropped.
UnforwardDrop ==
    /\ pc = "unforward"
    /\ \E p \in closed_ports :
         /\ closed_ports' = closed_ports \ {p}
         /\ forwarded' = remove(forwarded, p)
         /\ containers' \in GuardDropResults(containers,
                                socat_container_name(ToString(forwarded[p])))
         /\ LET stopOk == DockerStopSucceeds(containers,
                               socat_container_name(ToString(forwarded[p])))
            IN /\ iters' = [Note("dropped", p) EXCEPT
                               ![Len(iters)].dropFailed =
                                   IF stopOk THEN @ ELSE @ \cup {p}]
               /\ pc' = (IF GuardDropOutcome(stopOk) = "dropped" THEN pc ELSE "panicked")
    /\ UNCHANGED <<timerFired, listening_set, todo, cur, exitN, exitDrops, collided, detectFailed>>
    /\ Quiet

\* The iteration is over: back to the select! with a fresh sleep.
UnforwardEnd ==
    /\ pc = "unforward"
    /\ closed_ports = {}
    /\ pc' = "select"
    /\ timerFired' = FALSE
    /\ UNCHANGED <<containers, forwarded, listening_set, todo, cur, closed_ports,
                   iters, exitN, exitDrops, collided, detectFailed>>
    /\ Quiet

\* drop(forwarded) after the loop, or the locals of the cancelled task being
\* dropped: every guard is dropped, in the map's order.
DropForwarded ==
    /\ pc \in {"cleanup", "cancel_drop"}
    /\ \E p \in DOMAIN forwarded :
         /\ forwarded' = [q \in DOMAIN forwarded \ {p} |-> forwarded[q]]
         /\ containers' \in GuardDropResults(containers,
                                socat_container_name(ToString(forwarded[p])))
    /\ exitDrops' = exitDrops + 1
    /\ UNCHANGED <<pc, timerFired, listening_set, todo, cur, closed_ports, iters,
                   exitN, collided, detectFailed>>
    /\ Quiet

\* run_auto_forward returns, or the cancelled task is gone.
TaskEnd ==
    /\ pc \in {"cleanup", "cancel_drop"}
    /\ forwarded = <<>>
    /\ pc' = (IF pc = "cleanup" THEN "done" ELSE "cancelled")
    /\ UNCHANGED <<containers, timerFired, forwarded, listening_set, todo, cur,
                   closed_ports, iters, exitN, exitDrops, collided, detectFailed>>
    /\ Quiet

\* cli/exec.rs main: dc.exec(...) is over and _auto_forward goes out of scope;
\* AutoPortForwarder::drop sends the shutdown signal.
DropForwarder ==
    /\ ~shutdownSent
    /\ shutdownSent' = TRUE
    /\ UNCHANGED <<containers, hostBound, exclude_ports, pc, timerFired, rt, forwarded,
                   listening_set, todo, cur, closed_ports, iters, exitN, exitDrops,
                   collided, detectFailed>>
    /\ UNCHANGED <<varsNvim, varsPort, varsCompose, varsClip, varsCli, varsSess>>

\* main.rs: main returns right after the drop (the JoinHandle is never awaited)
\* and #[tokio::main] shuts the runtime down.
RuntimeShutdown ==
    /\ shutdownSent /\ rt = "running"
    /\ rt' = "shutdown"
    /\ UNCHANGED <<containers, hostBound, exclude_ports, pc, timerFired, shutdownSent,
                   forwarded, listening_set, todo, cur, closed_ports, iters, exitN,
                   exitDrops, collided, detectFailed>>
    /\ UNCHANGED <<varsNvim, varsPort, varsCompose, varsClip, varsCli, varsSess>>

\* The runtime drops the task at the .await it is suspended in: the task's
\* locals (forwarded, with its guards) are dropped; a docker run that
\* forward_port was awaiting stays launched and has no guard.
Cancel ==
    /\ rt = "shutdown" /\ pc \in AwaitPoints
    /\ pc' = "cancel_drop"
    /\ exitN' = Cardinality(DOMAIN forwarded)
    /\ cur' = <<>>
    /\ detectFailed' = FALSE
    /\ UNCHANGED <<containers, timerFired, forwarded, listening_set, todo,
                   closed_ports, iters, exitDrops, collided>>
    /\ Quiet

\* cli/port.rs add_port, from another invocation: forward_port and mem::forget.
ManualAdd ==
    /\ \E d \in ManualAdds :
         IF DockerRunSucceeds(containers, hostBound, socat_container_name(d[1]), d[1])
         THEN /\ containers' = containers \cup {RelayContainer(d[1], d[2], "manual")}
              /\ UNCHANGED collided
         ELSE /\ collided' = TRUE
              /\ UNCHANGED containers
    /\ UNCHANGED <<hostBound, exclude_ports, pc, timerFired, shutdownSent, rt, forwarded,
                   listening_set, todo, cur, closed_ports, iters, exitN, exitDrops,
                   detectFailed>>
    /\ UNCHANGED <<varsNvim, varsPort, varsCompose, varsClip, varsCli, varsSess>>

\* cli/port.rs remove_port, from another invocation: stop_forward_port.
ManualRm ==
    /\ \E h \in ManualRms :
         containers' = DockerStop(containers, socat_container_name(h))
    /\ UNCHANGED <<hostBound, exclude_ports, pc, timerFired, shutdownSent, rt, forwarded,
                   listening_set, todo, cur, closed_ports, iters, exitN, exitDrops,
                   collided, detectFailed>>
    /\ UNCHANGED <<varsNvim, varsPort, varsCompose, varsClip, varsCli, varsSess>>

\* Another process binds a free host port.
EnvBind ==
    /\ \E p \in ForeignPorts :
         /\ ~HostPortInUse(containers, hostBound, p)
         /\ hostBound' = hostBound \cup {p}
    /\ UNCHANGED <<containers, exclude_ports, pc, timerFired, shutdownSent, rt, forwarded,
                   listening_set, todo, cur, closed_ports, iters, exitN, exitDrops,
                   collided, detectFailed>>
    /\ UNCHANGED <<varsNvim, varsPort, varsCompose, varsClip, varsCli, varsSess>>

\* Another process releases a host port.
EnvRelease ==
    /\ \E p \in hostBound : hostBound' = hostBound \ {p}
    /\ UNCHANGED <<containers, exclude_ports, pc, timerFired, shutdownSent, rt, forwarded,
                   listening_set, todo, cur, closed_ports, iters, exitN, exitDrops,
                   collided, detectFailed>>
    /\ UNCHANGED <<varsNvim, varsPort, varsCompose, varsClip, varsCli, varsSess>>

InitAuto ==
    /\ containers = {}
    /\ hostBound = {}
    /\ exclude_ports \in ExcludeChoices
    /\ pc = "select"
    /\ timerFired = FALSE
    /\ shutdownSent = FALSE
    /\ rt = "running"
    /\ forwarded = <<>>
    /\ listening_set = {}
    /\ todo = {}
    /\ cur = <<>>
    /\ closed_ports = {}
    /\ iters = <<>>
    /\ exitN = -1
    /\ exitDrops = 0
    /\ collided = FALSE
    /\ detectFailed = FALSE

NextAuto ==
    \/ TimerFire \/ SelectShutdown \/ SelectSleep
    \/ DetectOk \/ DetectErr
    \/ ForwardSkip \/ ForwardChoose \/ ForwardFail \/ ForwardLaunch \/ ForwardReturn
    \/ ForwardEnd \/ UnforwardDrop \/ UnforwardEnd
    \/ DropForwarded \/ TaskEnd
    \/ DropForwarder \/ RuntimeShutdown \/ Cancel
    \/ ManualAdd \/ ManualRm \/ EnvBind \/ EnvRelease

-----------------------------------------------------------------------------
(* cli/neovim.rs: the client-retry loop                                    *)

\* const MIN_DURATION: Duration = Duration::from_millis(500), in milliseconds.
MIN_DURATION == 500

\* let mut retry_interval = 1
InitialRetryInterval == 1

\* (retry_interval * 2).min(10)
MaxRetryInterval == 10

\* Client attempts one run of the loop is followed for while the server is
\* alive; `launches` and `sleeps` record no more than this many.
MaxLaunches == 7

\* How long a foreground client ran, in milliseconds.
ClientDurations == {100, 499, 500, 600}

\* What exec::exec reports for the foreground client: Ok (status 0) or Err (a
\* non-zero status, or the spawn failed).
ForegroundOutputs == {"ok", "failed"}

\* time::sleep(Duration::from_millis(500)) of the background client
BackgroundDelay == 500

\* What the background client did: exec::spawn failed, or child.try_wait()
\* after the 500 ms found it exited (with status 0 or 1), still running, or
\* could not tell.
BackgroundOutputs == {"spawn_failed", "exited_0", "exited_1", "running", "wait_error"}

\* The spawned client when the attempt returns. The foreground client was
\* waited for by exec::exec; the background Child is dropped as try_wait left
\* it, neither killed nor waited for.
ChildAfter(output) ==
    CASE output \in {"ok", "failed", "exited_0", "exited_1"} -> "exited"
      [] output = "running"                                 -> "running"
      [] output = "wait_error"                              -> "unknown"
      [] OTHER                                              -> "none"

\* nvim.try_wait() on the server: Ok(None), Ok(Some(status)) or Err.
TryWaitResults(srv) == IF srv = "alive" THEN {"none", "err"} ELSE {"some", "err"}

Min(a, b) == IF a <= b THEN a ELSE b

\* run_foreground_neovim_client without the minimum-duration test.
run_foreground_neovim_client_NoMinimum(elapsed, output) == output

\* run_foreground_neovim_client: the result reported for the attempt.
run_foreground_neovim_client(elapsed, output) ==
    IF elapsed < MIN_DURATION THEN "too_fast" ELSE output

\* run_background_neovim_client that goes by the exit status of a client it
\* found exited.
run_background_neovim_client_ByStatus(output) ==
    CASE output \in {"running", "exited_0"} -> "ok"
      [] output = "exited_1"                -> "too_fast"
      [] OTHER                              -> "failed"

\* run_background_neovim_client: the result reported for the attempt.
run_background_neovim_client(output) ==
    CASE output = "running"                 -> "ok"
      [] output \in {"exited_0", "exited_1"} -> "too_fast"
      [] OTHER                              -> "failed"

\* is_server_finished with map_or(false, ...): a failed try_wait reads as alive.
is_server_finished_ErrAlive(tryWait) == tryWait = "some"

\* handle_connection_failure: try_wait().map_or(true, |s| s.is_some())
is_server_finished(tryWait) == tryWait # "none"

\* NextRetryInterval without the cap.
NextRetryInterval_NoCap(r) == r * 2

\* run_neovim_client_with_retry: retry_interval = (retry_interval * 2).min(10)
NextRetryInterval(r) == Min(r * 2, MaxRetryInterval)

\* No attempt yet; `liveness` is what nvim.try_wait() said after the attempt
\* failed ("unchecked" until handle_connection_failure has asked).
NoRun == [elapsed |-> 0, output |-> "none", result |-> "none", liveness |-> "unchecked",
          child |-> "none"]

UnchangedNvimRest ==
    UNCHANGED <<varsAuto, varsPort, varsCompose, varsClip, varsCli, background, spc, spawned,
                guard, result,
                exitPath, killSent, waited, cleanupOk, firedIn, varsMain>>

\* The .await the call is suspended in completes. main's select! polls the call
\* before the Ctrl+C branch only once after the signal has fired: the call then
\* runs on to its next pending .await, or to its return.
AwaitCompletes ==
    /\ sel # "polled"
    /\ sel' = (IF sel = "fired" THEN "polled" ELSE sel)

\* loop { let result = run_neovim_client(config, &args, MIN_DURATION).await;
\* Ok breaks out of the loop and the function returns Ok(()).
RunClient ==
    /\ npc = "client"
    /\ launches < MaxLaunches \/ server = "exited"
    /\ \E run \in
          IF background
          THEN {[elapsed |-> IF o = "spawn_failed" THEN 0 ELSE BackgroundDelay,
                 output |-> o, liveness |-> "unchecked", child |-> ChildAfter(o),
                 result |-> run_background_neovim_client(o)] : o \in BackgroundOutputs}
          ELSE {[elapsed |-> e, output |-> o, liveness |-> "unchecked",
                 child |-> ChildAfter(o),
                 result |-> run_foreground_neovim_client(e, o)] :
                    e \in ClientDurations, o \in ForegroundOutputs} :
         /\ lastRun' = run
         /\ npc' = (IF run.result = "ok" THEN "ok" ELSE "failed")
         /\ reclassified' = (reclassified \/ (run.output = "ok" /\ run.result # "ok"))
    /\ launches' = Min(launches + 1, MaxLaunches)
    /\ AwaitCompletes
    /\ UNCHANGED <<retry_interval, server, sleeps>>
    /\ UnchangedNvimRest

\* handle_connection_failure that gives up on a client that failed otherwise
\* than by exiting too fast.
handle_connection_failure_TooFastOnly(tryWait, error) ==
    ~is_server_finished(tryWait) /\ error = "too_fast"

\* handle_connection_failure that never looks at the server: always Ok(true).
handle_connection_failure_AlwaysRetry(tryWait, error) == TRUE

\* handle_connection_failure: Ok(false) when the server is finished, else
\* (after the sleep) Ok(true); `error` is only logged.
handle_connection_failure(tryWait, error) == ~is_server_finished(tryWait)

\* handle_connection_failure: the server is finished, Ok(false); the loop
\* returns Err(e) wrapped as "... failed and the server process exited".
HandleFailureServerDead ==
    /\ npc = "failed"
    /\ \E w \in TryWaitResults(server) :
         /\ ~handle_connection_failure(w, lastRun.result)
         /\ lastRun' = [lastRun EXCEPT !.liveness = w]
    /\ npc' = "err"
    /\ UNCHANGED <<retry_interval, server, sleeps, launches, reclassified, sel>>
    /\ UnchangedNvimRest

\* handle_connection_failure: the server is alive; log and
\* time::sleep(retry_interval).
HandleFailureSleep ==
    /\ npc = "failed"
    /\ \E w \in TryWaitResults(server) :
         /\ handle_connection_failure(w, lastRun.result)
         /\ lastRun' = [lastRun EXCEPT !.liveness = w]
    /\ sleeps' = (IF Len(sleeps) < MaxLaunches THEN Append(sleeps, retry_interval)
                  ELSE sleeps)
    /\ npc' = "sleeping"
    /\ UNCHANGED <<retry_interval, server, launches, reclassified, sel>>
    /\ UnchangedNvimRest

\* The sleep is over, Ok(true): the interval doubles up to the cap and the loop
\* goes round.
SleepDone ==
    /\ npc = "sleeping"
    /\ retry_interval' = NextRetryInterval(retry_interval)
    /\ npc' = "client"
    /\ AwaitCompletes
    /\ UNCHANGED <<server, lastRun, sleeps, launches, reclassified>>
    /\ UnchangedNvimRest

\* The nvim server process in the container exits.
ServerExit ==
    /\ npc \in {"client", "failed", "sleeping"}
    /\ server = "alive"
    /\ server' = "exited"
    /\ UNCHANGED <<npc, retry_interval, lastRun, sleeps, launches, reclassified, sel>>
    /\ UnchangedNvimRest

InitNvim ==
    /\ background \in BOOLEAN
    /\ npc = "client"
    /\ retry_interval = InitialRetryInterval
    /\ server = "alive"
    /\ lastRun = NoRun
    /\ sleeps = <<>>
    /\ launches = 0
    /\ reclassified = FALSE

IdleNvim ==
    /\ background = FALSE
    /\ npc = "idle"
    /\ retry_interval = InitialRetryInterval
    /\ server = "alive"
    /\ lastRun = NoRun
    /\ sleeps = <<>>
    /\ launches = 0
    /\ reclassified = FALSE

NextNvim ==
    \/ RunClient \/ HandleFailureServerDead \/ HandleFailureSleep \/ SleepDone
    \/ ServerExit

-----------------------------------------------------------------------------
(* auto_port_forward.rs choose_host_port with devcontainer.rs              *)
(* find_available_host_port, probe by probe                                *)

\* for _ in 0..1000
MaxProbes == 1000

\* The container ports choose_host_port is called with.
PreferredPorts == {3000, 54321}

\* Host ports other processes bind and release during the call.
ProbeEnvPorts == {3000, 50000, 54321, 59999}

\* ProbesLeft with `..=` for `..`: one round too many.
ProbesLeft_Inclusive(n) == n <= MaxProbes

\* for _ in 0..1000: another round is to be made after n rounds.
ProbesLeft(n) == n < MaxProbes

UnchangedPortRest ==
    UNCHANGED <<containers, exclude_ports, pc, timerFired, shutdownSent, rt, forwarded,
                listening_set, todo, cur, closed_ports, iters, exitN, exitDrops,
                collided, detectFailed, varsNvim, varsCli, varsSess, varsCompose, varsClip, preferred>>

\* TcpListener::bind(("127.0.0.1", preferred)): on success the container
\* port is returned, else find_available_host_port is entered.
ChooseBindPreferred ==
    /\ cpc = "start"
    /\ IF is_host_port_available(containers, hostBound, preferred)
       THEN /\ chosen' = preferred
            /\ chosenAvail' = ~HostPortInUse(containers, hostBound, preferred)
            /\ prefOk' = TRUE
            /\ how' = "preferred"
            /\ cpc' = "returned"
       ELSE /\ prefOk' = FALSE
            /\ cpc' = "probing"
            /\ UNCHANGED <<chosen, chosenAvail, how>>
    /\ UNCHANGED <<probes, failed, hostBound>>
    /\ UnchangedPortRest

\* One round of `for _ in 0..1000`: a port is drawn and test-bound; the first
\* that binds is returned.
FindProbe ==
    /\ cpc = "probing"
    /\ ProbesLeft(probes)
    /\ probes' = probes + 1
    /\ \E port \in ProbePorts :
         IF is_host_port_available(containers, hostBound, port)
         THEN /\ chosen' = port
              /\ chosenAvail' = ~HostPortInUse(containers, hostBound, port)
              /\ how' = "probed"
              /\ cpc' = "returned"
              /\ UNCHANGED failed
         ELSE /\ failed' = failed + 1
              /\ UNCHANGED <<chosen, chosenAvail, how, cpc>>
    /\ UNCHANGED <<prefOk, hostBound>>
    /\ UnchangedPortRest

\* All 1000 probes failed: find_available_host_port returns Err and
\* choose_host_port's unwrap_or returns the container port.
FindExhausted ==
    /\ cpc = "probing"
    /\ ~ProbesLeft(probes)
    /\ chosen' = preferred
    /\ chosenAvail' = ~HostPortInUse(containers, hostBound, preferred)
    /\ how' = "fallback"
    /\ cpc' = "returned"
    /\ UNCHANGED <<probes, prefOk, failed, hostBound>>
    /\ UnchangedPortRest

\* Another process binds a free host port during the call.
ProbeEnvBind ==
    /\ cpc \in {"start", "probing"}
    /\ \E p \in ProbeEnvPorts \ hostBound : hostBound' = hostBound \cup {p}
    /\ UNCHANGED <<cpc, probes, chosen, how, prefOk, failed, chosenAvail>>
    /\ UnchangedPortRest

\* Another process releases a host port during the call.
ProbeEnvRelease ==
    /\ cpc \in {"start", "probing"}
    /\ \E p \in hostBound : hostBound' = hostBound \ {p}
    /\ UNCHANGED <<cpc, probes, chosen, how, prefOk, failed, chosenAvail>>
    /\ UnchangedPortRest

InitPort ==
    /\ cpc = "start"
    /\ preferred \in PreferredPorts
    /\ probes = 0
    /\ chosen = 0
    /\ how = "none"
    /\ prefOk = FALSE
    /\ failed = 0
    /\ chosenAvail = FALSE

IdlePort ==
    /\ cpc = "idle"
    /\ preferred = 0
    /\ probes = 0
    /\ chosen = 0
    /\ how = "none"
    /\ prefOk = FALSE
    /\ failed = 0
    /\ chosenAvail = FALSE

\* The loop's variables before AutoPortForwarder::start, for the
\* specifications that do not run the loop.
IdleAuto ==
    /\ containers = {}
    /\ exclude_ports = {}
    /\ pc = "idle"
    /\ timerFired = FALSE
    /\ shutdownSent = FALSE
    /\ rt = "running"
    /\ forwarded = <<>>
    /\ listening_set = {}
    /\ todo = {}
    /\ cur = <<>>
    /\ closed_ports = {}
    /\ iters = <<>>
    /\ exitN = -1
    /\ exitDrops = 0
    /\ collided = FALSE
    /\ detectFailed = FALSE

NextPort ==
    \/ ChooseBindPreferred \/ FindProbe \/ FindExhausted
    \/ ProbeEnvBind \/ ProbeEnvRelease

-----------------------------------------------------------------------------
(* cli/port.rs: `dockim port add / rm / ls` invocations on the session      *)

\* Port descriptors given to `dockim port add`, as their ':'-separated fields:
\* "3000", "1025:" (an empty container port) and "3000:80:tcp".
CliDescriptors == {<<"3000">>, <<"3000", "80">>, <<"1025", "">>, <<"3000", "80", "tcp">>}

\* Host ports given to `dockim port rm`.
CliRms == {"3000", "1025", "59999"}

\* Port descriptors given to `dockim port rm`, as their ':'-separated fields:
\* the host ports of CliRms, "1025:9" and "3000:80:tcp".
CliRmDescriptors == {<<h>> : h \in CliRms} \cup {<<"1025", "9">>, <<"3000", "80", "tcp">>}

\* A container that carries a relay name of the session without having been
\* started by forward_port: socat run by hand with the `TCP:` address form.
ForeignRelays ==
    {[name    |-> socat_container_name("59999"),
      publish |-> "59999",
      target  |-> <<"TCP", ContainerIp, "80">>,
      by      |-> "foreign",
      cport   |-> "80"]}

\* parse_port_descriptor that takes the first two fields of a longer descriptor.
parse_port_descriptor_Lenient(d) ==
    CASE Len(d) = 1 -> [ok |-> TRUE, host_port |-> d[1], container_port |-> d[1]]
      [] OTHER      -> [ok |-> TRUE, host_port |-> d[1], container_port |-> d[2]]

\* parse_port_descriptor: [port] is (port, port), [host, container] is itself,
\* anything else is an error.
parse_port_descriptor(d) ==
    CASE Len(d) = 1 -> [ok |-> TRUE, host_port |-> d[1], container_port |-> d[1]]
      [] Len(d) = 2 -> [ok |-> TRUE, host_port |-> d[1], container_port |-> d[2]]
      [] OTHER      -> [ok |-> FALSE, host_port |-> "", container_port |-> ""]

NoStop == [host_port |-> "", ok |-> FALSE, existed |-> FALSE, stopped |-> {},
           again |-> FALSE]

NoRmAll == [listed |-> {}, attempted |-> {}, failed |-> {}, result |-> "none"]

NoCmd == [kind |-> "none", descriptor |-> <<>>, parsed |-> FALSE, host_port |-> "",
          container_port |-> "", result |-> "none", started |-> {}, stopped |-> {}]

\* What a `port add` or `port rm` did: its descriptor, what the parse gave,
\* what the command returned and the relays it started and stopped.
CmdRecord(kind, d, r, ok, before, after) ==
    [kind |-> kind, descriptor |-> d, parsed |-> r.ok, host_port |-> r.host_port,
     container_port |-> r.container_port, result |-> IF ok THEN "ok" ELSE "err",
     started |-> after \ before, stopped |-> before \ after]

\* add_port with the guard going out of scope at the end of the statement:
\* PortForwardGuard::drop stops the relay.
mem_forget_Drop(cs, name) == DockerStop(cs, name)

\* mem::forget(guard): the guard's drop never runs, the relay is left alone.
mem_forget(cs, name) == cs

UnchangedCliRest ==
    UNCHANGED <<hostBound, exclude_ports, pc, timerFired, shutdownSent, rt, forwarded,
                listening_set, todo, cur, closed_ports, iters, exitN, exitDrops,
                collided, detectFailed, varsNvim, varsPort, varsCompose, varsClip, varsSess>>

\* add_port: parse the descriptor, forward_port, mem::forget of the guard. A
\* bad descriptor, a failure before docker run or a refusal by docker is Err.
PortAdd ==
    /\ \E d \in CliDescriptors, fails \in BOOLEAN :
         LET r == parse_port_descriptor(d)
             name == socat_container_name(r.host_port)
             launched == /\ r.ok /\ ~fails
                         /\ DockerRunSucceeds(containers, hostBound, name, r.host_port)
         IN /\ containers' =
                 CASE launched ->
                        mem_forget(containers \cup
                            {RelayContainer(r.host_port, r.container_port, "manual")},
                            name)
                   [] r.ok /\ ~fails /\ ~launched ->
                        docker_run_refused(containers,
                            RelayContainer(r.host_port, r.container_port, "manual"))
                   [] OTHER -> containers
            /\ lastCmd' = CmdRecord("add", d, r, launched, containers, containers')
    /\ lastStop' = NoStop
    /\ UNCHANGED <<cmd, ports, listed, rmAll>>
    /\ UnchangedCliRest

\* remove_port with a descriptor: parse it, stop_forward_port(host_port).
PortRm ==
    /\ \E d \in CliRmDescriptors :
         LET r == parse_port_descriptor(d)
             name == socat_container_name(r.host_port)
             ok == r.ok /\ DockerStopSucceeds(containers, name)
         IN /\ containers' = (IF r.ok THEN DockerStop(containers, name) ELSE containers)
            /\ lastStop' =
                 IF r.ok
                 THEN [host_port |-> r.host_port,
                       ok        |-> ok,
                       existed   |-> \E c \in containers : c.name = name,
                       stopped   |-> containers \ containers',
                       again     |-> lastStop.ok /\ lastStop.host_port = r.host_port]
                 ELSE NoStop
            /\ lastCmd' = CmdRecord("rm", d, r, ok, containers, containers')
    /\ UNCHANGED <<cmd, ports, listed, rmAll>>
    /\ UnchangedCliRest

\* list_ports: list_forwarded_ports.
PortLs ==
    /\ listed' = list_forwarded_ports(containers)
    /\ UNCHANGED <<containers, cmd, ports, lastStop, rmAll, lastCmd>>
    /\ UnchangedCliRest

\* remove_all_forwarded_ports: let ports = self.list_forwarded_ports().await?
RmAllList ==
    /\ cmd = "idle"
    /\ ports' = {list_forwarded_ports(containers)[c].host_port : c \in containers}
    /\ rmAll' = [NoRmAll EXCEPT !.listed = ports']
    /\ cmd' = "rm_all"
    /\ UNCHANGED <<containers, listed, lastStop, lastCmd>>
    /\ UnchangedCliRest

\* remove_all_forwarded_ports: self.stop_forward_port(&port.host_port).await?
\* for the next port of the vector; the `?` returns at the first Err.
RmAllStop ==
    /\ cmd = "rm_all"
    /\ \E h \in ports :
         LET name == socat_container_name(h) IN
         /\ containers' = DockerStop(containers, name)
         /\ IF DockerStopSucceeds(containers, name)
            THEN /\ ports' = ports \ {h}
                 /\ rmAll' = [rmAll EXCEPT !.attempted = @ \cup {h}]
                 /\ UNCHANGED cmd
            ELSE /\ ports' = {}
                 /\ rmAll' = [rmAll EXCEPT !.attempted = @ \cup {h},
                                           !.failed = @ \cup {h},
                                           !.result = "err"]
                 /\ cmd' = "idle"
    /\ lastStop' = NoStop
    /\ UNCHANGED <<listed, lastCmd>>
    /\ UnchangedCliRest

\* remove_all_forwarded_ports: the vector is exhausted, Ok(()).
RmAllDone ==
    /\ cmd = "rm_all"
    /\ ports = {}
    /\ rmAll' = [rmAll EXCEPT !.result = "ok"]
    /\ cmd' = "idle"
    /\ UNCHANGED <<containers, ports, listed, lastStop, lastCmd>>
    /\ UnchangedCliRest

\* A container with a relay name of the session is started outside dockim.
EnvRun ==
    /\ \E r \in ForeignRelays :
         /\ DockerRunSucceeds(containers, hostBound, r.name, r.publish)
         /\ containers' = containers \cup {r}
    /\ lastStop' = NoStop
    /\ UNCHANGED <<cmd, ports, listed, rmAll, lastCmd>>
    /\ UnchangedCliRest

IdleCli ==
    /\ cmd = "idle"
    /\ ports = {}
    /\ listed = <<>>
    /\ lastStop = NoStop
    /\ rmAll = NoRmAll
    /\ lastCmd = NoCmd

NextCli ==
    \/ PortAdd \/ PortRm \/ PortLs
    \/ RmAllList \/ RmAllStop \/ RmAllDone
    \/ EnvRun

-----------------------------------------------------------------------------
(* cli/neovim.rs: main's select! and run_neovim_server_and_attach          *)

\* The NeovimArgs of the invocation; an absent option is <<>>.
NeovimArgsChoices ==
    [no_remote_ui : BOOLEAN, host_port : {<<>>, <<"50000">>},
     container_port : {<<>>, <<"8080">>}]

\* `dockim neovim` with no option.
DefaultNeovimArgs == [no_remote_ui |-> FALSE, host_port |-> <<>>, container_port |-> <<>>]

\* The exit statuses of the nvim that run_neovim_directly executes.
DirectStatuses == {0, 1, 130}

\* No ports determined; `probed` says whether find_available_host_port was called.
NoPorts == [host_port |-> "", container_port |-> "", probed |-> FALSE]

\* determine_ports that allocates the host port whatever --host-port says.
determine_ports_AlwaysAllocate(args, found) ==
    [ok |-> found.ok, host_port |-> ToString(found.port), probed |-> TRUE,
     container_port |-> IF args.host_port # <<>> /\ args.container_port # <<>>
                        THEN args.container_port[1] ELSE "54321"]

\* main: with --host-port, (host_port, container_port.unwrap_or("54321"));
\* without it, (find_available_host_port()?.to_string(), "54321").
determine_ports(args, found) ==
    IF args.host_port # <<>>
    THEN [ok |-> TRUE, host_port |-> args.host_port[1], probed |-> FALSE,
          container_port |-> IF args.container_port # <<>>
                             THEN args.container_port[1] ELSE "54321"]
    ELSE [ok |-> found.ok, host_port |-> ToString(found.port), probed |-> TRUE,
          container_port |-> "54321"]

\* exec::exec that does not look at the exit status.
exec_IgnoreStatus(status) == "ok"

\* exec::exec: ensure!(status.success(), ..), Err on any non-zero status.
exec(status) == IF status = 0 THEN "ok" ELSE "err"

\* The host port of the session: --host-port, or the auto-selected one.
SessionHostPort == session_ports.host_port

\* The container port of the session, as main determined it.
SessionContainerPort == session_ports.container_port

\* The session's relay, when it runs.
SessionRelays == {c \in containers : c.by = "session"}

\* AfterDefer for a defer! that would hand a failed kill or wait on.
AfterDefer_Propagates(res, cleaned) == IF cleaned THEN res ELSE "err"

\* defer! { let _ = kill().await; let _ = wait().await; }: what the call
\* returns is what it returned before the deferred block ran.
AfterDefer(res, cleaned) == res

\* The call is between two .awaits: it runs on without being suspended.
Transient == spc = "loop" /\ npc \in {"failed", "ok", "err"}

UnchangedSessRest ==
    UNCHANGED <<hostBound, exclude_ports, pc, timerFired, shutdownSent, rt, forwarded,
                listening_set, todo, cur, closed_ports, iters, exitN, exitDrops,
                collided, detectFailed, varsPort, varsCompose, varsClip, varsCli, background, retry_interval,
                lastRun,
                sleeps, launches, reclassified, neovim_args>>

\* main, remote UI: the ports are determined; an Err of
\* find_available_host_port returns through `?`.
DeterminePorts ==
    /\ spc = "args"
    /\ ~neovim_args.no_remote_ui
    /\ \E found \in find_available_host_port(containers, hostBound) :
         LET r == determine_ports(neovim_args, found) IN
         IF r.ok
         THEN /\ session_ports' = [host_port |-> r.host_port,
                                   container_port |-> r.container_port,
                                   probed |-> r.probed]
              /\ spc' = "start"
              /\ UNCHANGED <<result, exitPath>>
         ELSE /\ result' = "err"
              /\ exitPath' = "no_host_port"
              /\ spc' = "main_done"
              /\ UNCHANGED session_ports
    /\ UNCHANGED <<containers, spawned, guard, sel, killSent, waited, cleanupOk, firedIn,
                   npc, server, listen, direct_status>>
    /\ UnchangedSessRest

\* main, --no-remote-ui: run_neovim_directly; populate_envs returns Err
\* through `?`, or dc.exec starts nvim on the container's TTY.
DirectStart ==
    /\ spc = "args"
    /\ neovim_args.no_remote_ui
    /\ \E ok \in BOOLEAN :
         IF ok
         THEN /\ spc' = "direct"
              /\ UNCHANGED <<result, exitPath>>
         ELSE /\ result' = "err"
              /\ exitPath' = "direct_env_failed"
              /\ spc' = "main_done"
    /\ UNCHANGED <<containers, spawned, guard, sel, killSent, waited, cleanupOk, firedIn,
                   npc, server, session_ports, listen, direct_status>>
    /\ UnchangedSessRest

\* run_neovim_directly: nvim has exited; dc.exec's result is main's result.
DirectExit ==
    /\ spc = "direct"
    /\ \E status \in DirectStatuses :
         /\ direct_status' = status
         /\ result' = exec(status)
    /\ exitPath' = "direct"
    /\ spc' = "main_done"
    /\ UNCHANGED <<containers, spawned, guard, sel, killSent, waited, cleanupOk, firedIn,
                   npc, server, session_ports, listen>>
    /\ UnchangedSessRest

\* The locals of the call are dropped, on return or when the select! drops the
\* call: the guard, if the call holds it, stops the relay; the defer!, if the
\* server was spawned, kills the server and waits for it.
DropLocals ==
    /\ IF guard = "held"
       THEN /\ containers' \in GuardDropResults(containers,
                                   socat_container_name(SessionHostPort))
            /\ guard' = "dropped"
       ELSE UNCHANGED <<containers, guard>>
    /\ IF spawned
       THEN /\ killSent' = TRUE
            /\ waited' = TRUE
            /\ cleanupOk' \in BOOLEAN
            /\ server' = "exited"
       ELSE UNCHANGED <<killSent, waited, cleanupOk, server>>

\* populate_envs and dc.spawn: Ok arms the defer!, Err returns through `?`.
SessSpawn ==
    /\ spc = "start"
    /\ AwaitCompletes
    /\ \E ok \in BOOLEAN :
         IF ok
         THEN /\ spawned' = TRUE
              /\ listen' = SessionContainerPort
              /\ spc' = "forward"
              /\ UNCHANGED <<result, exitPath>>
         ELSE /\ result' = "err"
              /\ exitPath' = "spawn_failed"
              /\ spc' = "done"
              /\ UNCHANGED <<spawned, listen>>
    /\ UNCHANGED <<containers, guard, killSent, waited, cleanupOk, firedIn, npc, server,
                   session_ports, direct_status>>
    /\ UnchangedSessRest

\* forward_port returned Err (an inspect failed, or docker refused the relay):
\* the `?` returns it and the defer! runs.
SessForwardFail ==
    /\ spc = "forward"
    /\ AwaitCompletes
    /\ DropLocals
    /\ result' = AfterDefer("err", cleanupOk')
    /\ exitPath' = "forward_failed"
    /\ spc' = "done"
    /\ UNCHANGED <<spawned, firedIn, npc, session_ports, listen, direct_status>>
    /\ UnchangedSessRest

\* forward_port: docker run started the relay; the call still awaits its exit.
SessForwardLaunch ==
    /\ spc = "forward"
    /\ sel # "polled"
    /\ DockerRunSucceeds(containers, hostBound,
                         socat_container_name(SessionHostPort), SessionHostPort)
    /\ containers' = containers \cup
                       {RelayContainer(SessionHostPort, SessionContainerPort, "session")}
    /\ spc' = "fwd_ret"
    /\ UNCHANGED <<spawned, guard, sel, result, exitPath, killSent, waited, cleanupOk,
                   firedIn, npc, server, session_ports, listen, direct_status>>
    /\ UnchangedSessRest

\* forward_port returned Ok(guard); in background mode mem::forget(guard); then
\* run_neovim_client_with_retry is entered.
SessForwardReturn ==
    /\ spc = "fwd_ret"
    /\ AwaitCompletes
    /\ guard' = (IF background THEN "forgotten" ELSE "held")
    /\ spc' = "loop"
    /\ npc' = "client"
    /\ UNCHANGED <<containers, spawned, result, exitPath, killSent, waited, cleanupOk,
                   firedIn, server, session_ports, listen, direct_status>>
    /\ UnchangedSessRest

\* run_neovim_client_with_retry returned: the call returns its result, the
\* guard (if held) is dropped and the defer! runs.
SessReturn ==
    /\ spc = "loop"
    /\ npc \in {"ok", "err"}
    /\ DropLocals
    /\ result' = AfterDefer(npc, cleanupOk')
    /\ exitPath' = (IF npc = "ok" THEN "success" ELSE "conn_failed")
    /\ spc' = "done"
    /\ UNCHANGED <<spawned, sel, firedIn, npc, session_ports, listen, direct_status>>
    /\ UnchangedSessRest

\* The interrupt signal is delivered while the call is in progress.
CtrlC ==
    /\ sel = "idle"
    /\ spc \notin {"idle", "args", "direct", "main_done", "done"}
    /\ ~Transient
    /\ sel' = "fired"
    /\ firedIn' = (IF spc = "loop" THEN npc ELSE spc)
    /\ UNCHANGED <<containers, spc, spawned, guard, result, exitPath, killSent, waited,
                   cleanupOk, npc, server, session_ports, listen, direct_status>>
    /\ UnchangedSessRest

\* main's select! takes the ctrl_c branch: the call is dropped at the .await it
\* is suspended in and main returns Ok(()).
SelectCtrlC ==
    /\ sel # "idle"
    /\ spc \notin {"idle", "args", "direct", "main_done", "done"}
    /\ ~Transient
    /\ DropLocals
    /\ result' = AfterDefer("ok", cleanupOk')
    /\ exitPath' = "ctrl_c"
    /\ spc' = "done"
    /\ npc' = (IF npc = "idle" THEN npc ELSE "abandoned")
    /\ UNCHANGED <<spawned, sel, firedIn, session_ports, listen, direct_status>>
    /\ UnchangedSessRest

InitSess ==
    /\ spc = "args"
    /\ neovim_args \in NeovimArgsChoices
    /\ session_ports = NoPorts
    /\ listen = ""
    /\ direct_status = -1
    /\ spawned = FALSE
    /\ guard = "none"
    /\ sel = "idle"
    /\ result = "none"
    /\ exitPath = "none"
    /\ killSent = FALSE
    /\ waited = FALSE
    /\ cleanupOk = TRUE
    /\ firedIn = "none"

IdleSess ==
    /\ spc = "idle"
    /\ neovim_args = DefaultNeovimArgs
    /\ session_ports = NoPorts
    /\ listen = ""
    /\ direct_status = -1
    /\ spawned = FALSE
    /\ guard = "none"
    /\ sel = "idle"
    /\ result = "none"
    /\ exitPath = "none"
    /\ killSent = FALSE
    /\ waited = FALSE
    /\ cleanupOk = TRUE
    /\ firedIn = "none"

NextSess ==
    \/ DeterminePorts \/ DirectStart \/ DirectExit
    \/ SessSpawn \/ SessForwardFail \/ SessForwardLaunch \/ SessForwardReturn
    \/ RunClient \/ HandleFailureServerDead \/ HandleFailureSleep \/ SleepDone
    \/ ServerExit
    \/ SessReturn \/ CtrlC \/ SelectCtrlC

-----------------------------------------------------------------------------
(* devcontainer.rs: compute_compose_project_name                           *)
(* Strings are sequences of characters; an Option is <<>> or <<value>>.     *)

\* The key of a .env entry, "COMPOSE_PROJECT_NAME=", as one symbol of a line.
KEY == "COMPOSE_PROJECT_NAME="

\* Values of the COMPOSE_PROJECT_NAME environment variable: unset, " A_b-1 ",
\* "! " and "".
EnvChoices ==
    {<<>>, << <<" ", "A", "_", "b", "-", "1", " ">> >>, << <<"!", " ">> >>, << <<>> >>}

\* The .env of the current directory: no file; an entry after another line;
\* an entry that normalizes to nothing before a second entry; a commented entry.
DotEnvChoices ==
    {<<>>,
     << << <<"b", "=", "1">>, <<" ", KEY, " ", "D", "-", "b">> >> >>,
     << << <<KEY, "!">>, <<KEY, "a">> >> >>,
     << << <<"#", KEY, "a">> >> >>}

\* A compose file of dockerComposeFile: missing or unparsable; without a
\* `name`; with `name: B_a`, `name: " a-1"`, `name: "!"`.
ComposeFiles ==
    {[readable |-> FALSE, name |-> << <<"b">> >>],
     [readable |-> TRUE, name |-> <<>>],
     [readable |-> TRUE, name |-> << <<"B", "_", "a">> >>],
     [readable |-> TRUE, name |-> << <<" ", "a", "-", "1">> >>],
     [readable |-> TRUE, name |-> << <<"!">> >>]}

\* The longest dockerComposeFile array.
MaxComposeFiles == 2

\* dockerComposeFile: absent or empty (<<>>), or up to MaxComposeFiles files.
ComposeFileLists ==
    UNION {[1..n -> ComposeFiles] : n \in 0..MaxComposeFiles}

\* The workspace folder's name and names of the first compose file's directory.
WorkspaceName == <<"B", "a", "r">>

ComposeDirNames == {<<"A", ".", "b">>, <<"!">>}

InputChoices ==
    [env : EnvChoices, dotenv : DotEnvChoices, json_ok : BOOLEAN,
     files : ComposeFileLists, in_devcontainer_dir : BOOLEAN,
     compose_dir : ComposeDirNames]

\* char::to_lowercase on the characters used here.
to_lowercase(c) ==
    CASE c = "A" -> "a" [] c = "B" -> "b" [] c = "D" -> "d" [] OTHER -> c

\* c.is_ascii_alphanumeric() || c == '-' || c == '_'
is_name_char(c) ==
    c \in {"a", "b", "d", "r", "v", "e", "c", "o", "n", "t", "i",
           "A", "B", "D", "1", "-", "_"}

\* normalize_project_name without the to_lowercase.
normalize_project_name_NoLower(name) == SelectSeq(name, is_name_char)

\* normalize_project_name: lower-case, then keep alphanumerics, '-' and '_'.
normalize_project_name(name) ==
    SelectSeq([i \in 1..Len(name) |-> to_lowercase(name[i])], is_name_char)

RECURSIVE trim_start(_)
trim_start(str) ==
    IF str # <<>> /\ Head(str) = " " THEN trim_start(Tail(str)) ELSE str

RECURSIVE trim_end(_)
trim_end(str) ==
    IF str # <<>> /\ Last(str) = " " THEN trim_end(SubSeq(str, 1, Len(str) - 1)) ELSE str

\* str::trim
trim(str) == trim_end(trim_start(str))

\* str::strip_prefix("COMPOSE_PROJECT_NAME=")
strip_prefix(line) ==
    IF line # <<>> /\ Head(line) = KEY THEN <<Tail(line)>> ELSE <<>>

\* for line in contents.lines(): the value of the first line that, trimmed,
\* starts with the key, normalized; the loop breaks at that line whether or not
\* the value is empty. <<>> when no line has the key.
RECURSIVE env_file_name(_)
env_file_name(lines) ==
    IF lines = <<>> THEN <<>>
    ELSE LET value == strip_prefix(trim(Head(lines))) IN
         IF value # <<>> THEN normalize_project_name(trim(value[1]))
         ELSE env_file_name(Tail(lines))

\* compose_name that keeps the first `name` found.
RECURSIVE compose_name_FirstWins(_, _)
compose_name_FirstWins(files, acc) ==
    IF files = <<>> THEN acc
    ELSE compose_name_FirstWins(Tail(files),
             IF acc = <<>> /\ Head(files).readable /\ Head(files).name # <<>>
             THEN Head(files).name ELSE acc)

\* let mut compose_name = None; for compose_path in &compose_paths: a file
\* that exists, reads, parses and has a string `name` overwrites compose_name.
RECURSIVE compose_name(_, _)
compose_name(files, acc) ==
    IF files = <<>> THEN acc
    ELSE compose_name(Tail(files),
             IF Head(files).readable /\ Head(files).name # <<>>
             THEN Head(files).name ELSE acc)

\* The directory-derived name: "{workspace_name}_devcontainer" when the first
\* compose file is in the devcontainer.json's directory, else the name of the
\* compose file's directory; normalized.
directory_name(in) ==
    IF in.in_devcontainer_dir
    THEN normalize_project_name(WorkspaceName \o
             <<"_", "d", "e", "v", "c", "o", "n", "t", "a", "i", "n", "e", "r">>)
    ELSE normalize_project_name(in.compose_dir)

NoProject == [kind |-> "pending", name |-> <<>>, source |-> "none"]

Returned(kind, name, source) == [kind |-> kind, name |-> name, source |-> source]

UnchangedComposeRest ==
    UNCHANGED <<varsAuto, varsNvim, varsPort, varsCli, varsSess, varsClip, inputs>>

\* The COMPOSE_PROJECT_NAME environment variable, trimmed and normalized:
\* returned when not empty.
CheckEnvVar ==
    /\ stage = "env"
    /\ LET env_name == normalize_project_name(
                           trim(IF inputs.env = <<>> THEN <<>> ELSE inputs.env[1]))
       IN IF env_name # <<>>
          THEN /\ project' = Returned("some", env_name, "env")
               /\ stage' = "done"
          ELSE /\ stage' = "dotenv"
               /\ UNCHANGED project
    /\ UnchangedComposeRest

\* The .env of the current directory, when it can be read.
CheckDotEnv ==
    /\ stage = "dotenv"
    /\ LET name == IF inputs.dotenv = <<>> THEN <<>>
                   ELSE env_file_name(inputs.dotenv[1])
       IN IF name # <<>>
          THEN /\ project' = Returned("some", name, "dotenv")
               /\ stage' = "done"
          ELSE /\ stage' = "compose"
               /\ UNCHANGED project
    /\ UnchangedComposeRest

\* load_devcontainer_json (Err through `?`), resolve_compose_file_paths (None:
\* Ok(None)), then the `name` of the compose files.
ReadComposeNames ==
    /\ stage = "compose"
    /\ IF ~inputs.json_ok
       THEN /\ project' = Returned("err", <<>>, "none")
            /\ stage' = "done"
       ELSE IF inputs.files = <<>>
       THEN /\ project' = Returned("none", <<>>, "none")
            /\ stage' = "done"
       ELSE LET found == compose_name(inputs.files, <<>>)
                normalized == IF found = <<>> THEN <<>>
                              ELSE normalize_project_name(trim(found[1]))
            IN IF normalized # <<>>
               THEN /\ project' = Returned("some", normalized, "compose")
                    /\ stage' = "done"
               ELSE /\ stage' = "dir"
                    /\ UNCHANGED project
    /\ UnchangedComposeRest

\* The name derived from the directory of the first compose file.
DeriveFromDirectory ==
    /\ stage = "dir"
    /\ project' = Returned("some", directory_name(inputs), "dir")
    /\ stage' = "done"
    /\ UnchangedComposeRest

InitCompose ==
    /\ inputs \in InputChoices
    /\ stage = "env"
    /\ project = NoProject

IdleCompose ==
    /\ inputs = [env |-> <<>>, dotenv |-> <<>>, json_ok |-> TRUE, files |-> <<>>,
                 in_devcontainer_dir |-> TRUE, compose_dir |-> <<"!">>]
    /\ stage = "idle"
    /\ project = NoProject

NextCompose ==
    \/ CheckEnvVar \/ CheckDotEnv \/ ReadComposeNames \/ DeriveFromDirectory

-----------------------------------------------------------------------------
(* clipboard.rs: spawn_clipboard_server and the run_server task             *)

\* Ports the OS may give a listener bound to 127.0.0.1:0.
OsPorts == {49152, 49153}

\* Connections one run of the server is followed for.
MaxConns == 2

\* let bound_port = *port.lock().unwrap(): what the cell holds at that moment.
ReadPort(cell, bound) == cell

UnchangedClipRest ==
    UNCHANGED <<varsAuto, varsNvim, varsPort, varsCli, varsSess, varsCompose>>

\* tokio::spawn(async move { .. run_server(..).await }); the spawner goes on to
\* std::thread::sleep(100 ms).
ClipSpawn ==
    /\ clip_pc = "start"
    /\ clip_pc' = "sleep"
    /\ server_pc' = "spawned"
    /\ UNCHANGED <<port_mutex, listener, info_port, accepted>>
    /\ UnchangedClipRest

\* The 100 ms are over, whatever the task has done in them.
ClipSleepDone ==
    /\ clip_pc = "sleep"
    /\ clip_pc' = "read"
    /\ UNCHANGED <<server_pc, port_mutex, listener, info_port, accepted>>
    /\ UnchangedClipRest

\* let bound_port = *port.lock().unwrap(); Ok(SpawnedInfo { .., port: bound_port })
ClipReturn ==
    /\ clip_pc = "read"
    /\ info_port' = ReadPort(port_mutex, listener)
    /\ clip_pc' = "returned"
    /\ UNCHANGED <<server_pc, port_mutex, listener, accepted>>
    /\ UnchangedClipRest

\* The caller's defer!: shutdown_tx.send(()), its result ignored.
ClipShutdown ==
    /\ clip_pc = "returned"
    /\ clip_pc' = "shutdown"
    /\ UNCHANGED <<server_pc, port_mutex, listener, info_port, accepted>>
    /\ UnchangedClipRest

\* The task: populate_allowed_addresses() (it runs `docker` commands) is done.
ServerPopulate ==
    /\ server_pc = "spawned"
    /\ server_pc' = "populated"
    /\ UNCHANGED <<clip_pc, port_mutex, listener, info_port, accepted>>
    /\ UnchangedClipRest

\* run_server: TcpListener::bind("127.0.0.1:0") and local_addr(); an Err of
\* either returns through `?`.
ServerBind ==
    /\ server_pc = "populated"
    /\ \/ \E p \in OsPorts : listener' = p /\ server_pc' = "bound"
       \/ listener' = listener /\ server_pc' = "failed"
    /\ UNCHANGED <<clip_pc, port_mutex, info_port, accepted>>
    /\ UnchangedClipRest

\* run_server: *port.lock().unwrap() = bound_port
ServerStore ==
    /\ server_pc = "bound"
    /\ port_mutex' = listener
    /\ server_pc' = "serving"
    /\ UNCHANGED <<clip_pc, listener, info_port, accepted>>
    /\ UnchangedClipRest

\* run_server's select!: listener.accept() returned a connection; a client
\* whose address is not allowed is dropped, another is handled.
ServerAccept ==
    /\ server_pc = "serving"
    /\ Len(accepted) < MaxConns
    /\ \E allowed \in BOOLEAN : accepted' = Append(accepted, allowed)
    /\ UNCHANGED <<clip_pc, server_pc, port_mutex, listener, info_port>>
    /\ UnchangedClipRest

\* run_server's select!: the shutdown signal, `break`, Ok(()).
ServerShutdown ==
    /\ server_pc = "serving"
    /\ clip_pc = "shutdown"
    /\ server_pc' = "stopped"
    /\ UNCHANGED <<clip_pc, port_mutex, listener, info_port, accepted>>
    /\ UnchangedClipRest

InitClip ==
    /\ clip_pc = "start"
    /\ server_pc = "none"
    /\ port_mutex = 0
    /\ listener = 0
    /\ info_port = -1
    /\ accepted = <<>>

IdleClip ==
    /\ clip_pc = "idle"
    /\ server_pc = "none"
    /\ port_mutex = 0
    /\ listener = 0
    /\ info_port = -1
    /\ accepted = <<>>

NextClip ==
    \/ ClipSpawn \/ ClipSleepDone \/ ClipReturn \/ ClipShutdown
    \/ ServerPopulate \/ ServerBind \/ ServerStore \/ ServerAccept \/ ServerShutdown

-----------------------------------------------------------------------------
(* Specifications                                                          *)

Init == InitAuto /\ IdleNvim /\ IdlePort /\ IdleCli /\ IdleSess /\ IdleCompose
        /\ IdleClip

Next == NextAuto

Spec == Init /\ [][Next]_vars

InitNvimSpec ==
    IdleAuto /\ hostBound = {} /\ InitNvim /\ IdlePort /\ IdleCli /\ IdleSess
    /\ IdleCompose /\ IdleClip

SpecNvim == InitNvimSpec /\ [][NextNvim]_vars

\* The retry loop with its steps taken when they can be: a client attempt ends
\* (exec::exec returns, or the 500 ms and the try_wait of the background
\* client are over), handle_connection_failure's non-blocking try_wait
\* returns, and the backoff sleep elapses.
SpecNvimLive ==
    /\ SpecNvim
    /\ WF_vars(RunClient)
    /\ WF_vars(HandleFailureServerDead \/ HandleFailureSleep)
    /\ WF_vars(SleepDone)

InitPortSpec ==
    IdleAuto /\ hostBound \in SUBSET ProbeEnvPorts /\ IdleNvim /\ InitPort /\ IdleCli
    /\ IdleSess /\ IdleCompose /\ IdleClip

SpecPort == InitPortSpec /\ [][NextPort]_vars

InitCliSpec ==
    IdleAuto /\ hostBound \in {{}, {3000}} /\ IdleNvim /\ IdlePort /\ IdleCli /\ IdleSess
    /\ IdleCompose /\ IdleClip

SpecCli == InitCliSpec /\ [][NextCli]_vars

InitSessSpec ==
    /\ IdleAuto /\ hostBound \in {{}, {59999}, {50000}} /\ IdlePort /\ IdleCli /\ InitSess
    /\ IdleCompose /\ IdleClip
    /\ background \in BOOLEAN
    /\ npc = "idle"
    /\ retry_interval = InitialRetryInterval
    /\ server = "alive"
    /\ lastRun = NoRun
    /\ sleeps = <<>>
    /\ launches = 0
    /\ reclassified = FALSE

SpecSess == InitSessSpec /\ [][NextSess]_vars

InitComposeSpec ==
    IdleAuto /\ hostBound = {} /\ IdleNvim /\ IdlePort /\ IdleCli /\ IdleSess
    /\ InitCompose /\ IdleClip

SpecCompose == InitComposeSpec /\ [][NextCompose]_vars

InitClipSpec ==
    IdleAuto /\ hostBound = {} /\ IdleNvim /\ IdlePort /\ IdleCli /\ IdleSess
    /\ IdleCompose /\ InitClip

SpecClip == InitClipSpec /\ [][NextClip]_vars

-----------------------------------------------------------------------------
(* Properties of Spec                                                      *)

TaskEnded == pc \in {"done", "cancelled"}

\* The relays run_auto_forward started that are still running.
AutoRelays == {c \in containers : c.by = "auto"}

\* The last iteration recorded in iters has run to its end.
IterDone == pc \in {"select", "detect", "cleanup", "done"}

\* C1: once the shutdown signal has been sent to a loop holding N forwarded
\* ports and the task has ended, exactly N guard teardowns were made (N being
\* counted as late as the moment the loop was left) and no relay the loop
\* started is left running.
C1_ShutdownTearsDownExactlyN ==
    (shutdownSent /\ TaskEnded) => (exitDrops = exitN /\ AutoRelays = {})

\* C2: after the AutoPortForwarder is dropped, whatever the task was doing, no
\* relay the task started (in a finished or in the current iteration) is left
\* running once the task is gone.
C2_DropTearsDownEveryRelay ==
    (shutdownSent /\ pc \in {"done", "cancelled"})
        => (\A c \in containers : c.by # "auto")

\* What holds of the same shutdown when the runtime outlives the task: the
\* loop that leaves through the shutdown branch drops each of its N guards
\* once and leaves no relay of its own behind.
CleanShutdownTearsDownAll ==
    (pc = "done" /\ rt = "running") => (exitDrops = exitN /\ AutoRelays = {})

C4_ExclusionRespected ==
    \A p \in exclude_ports :
        /\ p \notin DOMAIN forwarded
        /\ cur # <<>> => cur[1] # p
        /\ \A k \in DOMAIN iters : p \notin iters[k].fwd \cup iters[k].started
        /\ \A c \in AutoRelays : ContainerPortOfCommand(c.target) # ToString(p)

\* C4's case: an excluded port was reported listening by a poll that forwarded
\* another port.
C4_Witness ==
    /\ exclude_ports = {54321}
    /\ iters # <<>>
    /\ 54321 \in iters[Len(iters)].poll
    /\ iters[Len(iters)].started = {3000}
    /\ IterDone
    /\ DOMAIN forwarded = {3000}

\* C5: every key of `forwarded` is greater than 1024, and no port <= 1024 is
\* handed to forward_port or has a relay of the loop.
C5_ThresholdRespected ==
    /\ \A p \in DOMAIN forwarded : p > 1024
    /\ cur # <<>> => cur[1] > 1024
    /\ \A k \in DOMAIN iters : \A p \in iters[k].fwd \cup iters[k].started : p > 1024
    /\ \A c \in AutoRelays : \A p \in AllPorts :
           ContainerPortOfCommand(c.target) = ToString(p) => p > 1024

\* C5's case: a poll reported 1024 and 1025, and 1025 alone was forwarded.
C5_Witness ==
    /\ iters # <<>>
    /\ iters[Len(iters)].poll = {1024, 1025}
    /\ IterDone
    /\ DOMAIN forwarded = {1025}

\* C9: with exclude_ports = [54321] and nothing forwarded yet, a poll reporting
\* {3000, 54321, 80} calls forward_port once, for 3000, and starts no relay but
\* that one; a following poll reporting {54321, 80} calls forward_port for
\* nothing, drops the guard of 3000 and leaves `forwarded` empty, and (the
\* runtime running) no relay of the loop for 3000 is left.
C9_EndToEndReconcile ==
    exclude_ports = {54321} =>
        /\ \A k \in DOMAIN iters :
              (/\ iters[k].poll = {3000, 54321, 80}
               /\ iters[k].startKeys = {}
               /\ (k < Len(iters) \/ IterDone))
              => (/\ iters[k].fwd = {3000}
                  /\ iters[k].started \subseteq {3000}
                  /\ iters[k].dropped = {})
        /\ (/\ Len(iters) = 2
            /\ iters[1].poll = {3000, 54321, 80}
            /\ iters[1].startKeys = {}
            /\ iters[2].poll = {54321, 80}
            /\ IterDone)
           => (/\ iters[2].fwd = {}
               /\ iters[2].started = {}
               /\ iters[2].dropped = iters[1].started
               /\ forwarded = <<>>
               /\ rt = "running" =>
                    \A c \in AutoRelays : ContainerPortOfCommand(c.target) # "3000")

\* C9's case: the first poll started the relay of 3000 and the second tore it
\* down.
C9_Witness ==
    /\ exclude_ports = {54321}
    /\ Len(iters) = 2
    /\ iters[1].poll = {3000, 54321, 80}
    /\ iters[1].startKeys = {}
    /\ iters[1].started = {3000}
    /\ iters[2].poll = {54321, 80}
    /\ iters[2].dropped = {3000}
    /\ IterDone
    /\ forwarded = <<>>

\* C18: a PortForwardGuard dropped by the loop whose `docker stop` failed
\* (its relay had been stopped by someone else) does not end the loop: the
\* task never stops on a drop, and the port leaves `forwarded` all the same.
C18_GuardDropNeverFails ==
    /\ pc # "panicked"
    /\ \A k \in DOMAIN iters : iters[k].dropFailed \subseteq iters[k].dropped
    /\ (iters # <<>> /\ pc \in {"select", "detect"})
         => iters[Len(iters)].dropFailed \cap DOMAIN forwarded = {}

\* C18's case: the guard of 3000 was dropped after `port rm` had stopped its
\* relay, and the loop went on to its next poll.
C18_Witness ==
    /\ Len(iters) = 2
    /\ iters[1].dropFailed = {3000}
    /\ pc = "forward"
    /\ rt = "running"

\* C19: while the process runs, every entry of `forwarded` has its relay
\* running, the one the loop started, whatever `port add` and `port rm` of
\* other invocations did in between.
C19_AutoAndManualIndependent ==
    rt = "running" =>
        \A p \in DOMAIN forwarded :
            \E c \in containers :
                /\ c.name = socat_container_name(ToString(forwarded[p]))
                /\ c.by = "auto"

\* C27: an iteration whose poll fails changes nothing: neither the step that
\* takes the loop from the select! to the poll nor the step in which the poll
\* returns Err changes `forwarded`, the filtered poll result or the set of
\* running relays, and the Err takes the loop back to the select! with a fresh
\* sleep, not out of the loop.
C27_FailedPollChangesNothing ==
    [][/\ (pc = "select" /\ pc' = "detect") =>
            (forwarded' = forwarded /\ containers' = containers)
       /\ (pc = "detect" /\ detectFailed') =>
            /\ forwarded' = forwarded /\ containers' = containers
            /\ listening_set' = listening_set /\ iters' = iters
            /\ pc' = "select" /\ ~timerFired']_vars

\* C27's case: a poll failed while the loop held the forward of 3000 with its
\* relay running, and the loop is back at the select!, the forward and the
\* relay still there.
C27_Witness ==
    /\ detectFailed
    /\ pc = "select"
    /\ 3000 \in DOMAIN forwarded
    /\ \E c \in AutoRelays : c.cport = "3000"

\* The candidates of the k-th recorded poll: above 1024 and not excluded.
Candidates(k) == {p \in iters[k].poll : Candidate(p, exclude_ports)}

\* C28: a forward_port failure is not fatal. The step in which it fails leaves
\* the loop in the `for` with the unvisited ports unchanged; an iteration in
\* which some forward_port failed and which has run to its end called
\* forward_port for every candidate of its poll that was not forwarded
\* already, and dropped every forward whose port the poll did not report.
C28_ForwardFailureNotFatal ==
    /\ pc # "panicked"
    /\ \A k \in DOMAIN iters :
         /\ iters[k].failedFwd \subseteq iters[k].fwd
         /\ (iters[k].failedFwd # {} /\ (k < Len(iters) \/ IterDone)) =>
               /\ iters[k].fwd = Candidates(k) \ iters[k].startKeys
               /\ iters[k].dropped = iters[k].startKeys \ Candidates(k)

\* C28's case: in one iteration the forward of one candidate failed, a relay
\* was started for another, a stale forward was dropped, and a later iteration
\* called forward_port again.
C28_Witness ==
    /\ Len(iters) = 2
    /\ iters[1].failedFwd # {}
    /\ iters[1].started # {}
    /\ iters[1].dropped # {}
    /\ iters[2].fwd # {}

\* C29: in an iteration the forward step is over before the unforward step
\* begins, and both work on the one poll result of the iteration: while a
\* candidate is still to be visited or a forward_port call is in progress
\* nothing has been dropped; when the first guard is dropped every candidate
\* has been visited; the ports to drop were computed from the same filtered
\* poll result the forward step went through; and no port reported by the poll
\* was dropped in that iteration.
C29_ForwardBeforeUnforward ==
    /\ pc \in {"forward", "fwd_call", "fwd_ret"} =>
          /\ iters[Len(iters)].dropped = {}
          /\ closed_ports = {}
          /\ listening_set = Candidates(Len(iters))
    /\ pc = "unforward" =>
          /\ todo = {} /\ cur = <<>>
          /\ iters[Len(iters)].fwd = Candidates(Len(iters)) \ iters[Len(iters)].startKeys
          /\ listening_set = Candidates(Len(iters))
          /\ closed_ports \cap listening_set = {}
    /\ \A k \in DOMAIN iters :
          /\ iters[k].dropped \cap iters[k].poll = {}
          /\ iters[k].dropped \cap iters[k].started = {}

\* C29's case: an iteration that started a relay for a newly listening port
\* and dropped the forward of a port no longer listening has ended, and the
\* relay it started is running.
C29_Witness ==
    /\ IterDone
    /\ Len(iters) = 2
    /\ iters[2].dropped # {}
    /\ \E p \in iters[2].started :
         /\ p \in DOMAIN forwarded
         /\ \E c \in AutoRelays : c.cport = ToString(p)

\* C30: at the select! at the top of the loop, once the shutdown signal has
\* been sent the loop does not go on to a poll: with the signal and the sleep
\* both ready the shutdown branch is the one taken.
C30_ShutdownWinsOverSleep ==
    [][(pc = "select" /\ shutdownSent) => pc' # "detect"]_vars

\* What holds of the same select!: while the sleep has not elapsed a sent
\* signal is the only way on, and it leaves the loop; once the loop has been
\* left no poll is made.
ShutdownWinsWhileSleepPending ==
    [][/\ (pc = "select" /\ shutdownSent /\ ~timerFired /\ ~timerFired') =>
            pc' \in {"select", "cleanup", "cancel_drop"}
       /\ pc \in {"cleanup", "cancel_drop", "done", "cancelled"} =>
            pc' \in {"cleanup", "cancel_drop", "done", "cancelled"}]_vars

\* C31: an iteration whose poll succeeded ends with the keys of `forwarded`
\* inside the candidates of its poll (listening, above 1024, not excluded),
\* having dropped the guards of exactly the entries it began with whose port
\* was not a candidate; and each such entry is removed and its guard dropped
\* in one step, once: the port was a key, was no candidate, had not been
\* dropped in this iteration, and is a key no longer.
C31_ForwardedWithinCandidates ==
    [][/\ (pc = "unforward" /\ pc' = "select") =>
            /\ DOMAIN forwarded' \subseteq Candidates(Len(iters))
            /\ iters[Len(iters)].dropped =
                   iters[Len(iters)].startKeys \ Candidates(Len(iters))
       /\ \A p \in AllPorts :
            (/\ pc = "unforward"
             /\ \/ p \in DOMAIN forwarded /\ p \notin DOMAIN forwarded'
                \/ p \in iters'[Len(iters)].dropped \ iters[Len(iters)].dropped) =>
                 /\ p \in DOMAIN forwarded /\ p \notin DOMAIN forwarded'
                 /\ p \notin Candidates(Len(iters))
                 /\ p \notin iters[Len(iters)].dropped
                 /\ p \in iters'[Len(iters)].dropped]_vars

\* C31's case: an iteration that began with two forwards has ended; its poll
\* no longer reported one of them, whose entry is gone and whose relay is
\* stopped, and the other is still forwarded.
C31_Witness ==
    /\ pc = "select"
    /\ Len(iters) = 2
    /\ Cardinality(iters[2].startKeys) = 2
    /\ Cardinality(iters[2].dropped) = 1
    /\ Cardinality(DOMAIN forwarded) = 1
    /\ DOMAIN forwarded \subseteq Candidates(2)
    /\ \A c \in AutoRelays : c.cport \notin {ToString(p) : p \in iters[2].dropped}

\* C36: a port whose forward_port failed in the iteration last begun is no
\* key of `forwarded` and had no relay started in that iteration; a port whose
\* forward_port failed in one iteration has forward_port called for it in the
\* next iteration that ran through its `for`, if that iteration's poll reports
\* it as a candidate, as has every candidate that was no key of `forwarded`
\* when the iteration began; forward_port is never called and no relay is
\* started for a container port that was a key of `forwarded` when the
\* iteration began, and a key never has two relays of the loop.
C36_FailedRetriedForwardedNotRepeated ==
    /\ iters # <<>> => iters[Len(iters)].failedFwd \cap DOMAIN forwarded = {}
    /\ \A k \in DOMAIN iters :
         /\ iters[k].fwd \cap iters[k].startKeys = {}
         /\ iters[k].started \cap iters[k].startKeys = {}
         /\ iters[k].started \cap iters[k].failedFwd = {}
         /\ (k < Len(iters) \/ IterDone \/ pc = "unforward") =>
               /\ Candidates(k) \ iters[k].startKeys \subseteq iters[k].fwd
               /\ k > 1 => (iters[k - 1].failedFwd \cap Candidates(k)) \subseteq iters[k].fwd
    /\ \A p \in DOMAIN forwarded :
         Cardinality({c \in AutoRelays : c.cport = ToString(p)}) <= 1

\* C36's case: forward_port for 3000 failed in the first iteration; the second
\* poll reported 3000 again, forward_port was called for it again and
\* succeeded; 3000 is forwarded, by one relay.
C36_Witness ==
    /\ Len(iters) = 2
    /\ 3000 \in iters[1].failedFwd
    /\ 3000 \in iters[2].fwd
    /\ 3000 \in iters[2].started
    /\ 3000 \in DOMAIN forwarded
    /\ Cardinality({c \in AutoRelays : c.cport = "3000"}) = 1
    /\ pc = "select"

\* C37: no two entries of `forwarded` have the same host port, whichever way
\* choose_host_port chose it (the container port itself, a port
\* find_available_host_port returned, or the container port again after
\* find_available_host_port failed).
C37_HostPortsDistinct ==
    \A p, q \in DOMAIN forwarded : p # q => forwarded[p] # forwarded[q]

\* What holds of the same map: two entries whose relays are both running do
\* not share a host port.
RunningEntriesHostPortsDistinct ==
    \A p, q \in DOMAIN forwarded :
        (/\ p # q
         /\ \E c \in AutoRelays : c.publish = ToString(forwarded[p]) /\ c.cport = ToString(p)
         /\ \E c \in AutoRelays : c.publish = ToString(forwarded[q]) /\ c.cport = ToString(q))
        => forwarded[p] # forwarded[q]

-----------------------------------------------------------------------------
(* Properties of SpecNvim                                                  *)

\* C6: in foreground mode a client that ran for less than 500 ms is reported
\* as a failure whatever its exit status, and the retry loop does not return
\* Ok on it; a client that exits with status 0 after 500 ms or more is
\* reported as success and the loop returns Ok.
C6_TooFastExitIsFailure ==
    (~background /\ lastRun # NoRun) =>
        /\ lastRun.elapsed < 500 => (lastRun.result # "ok" /\ npc # "ok")
        /\ (lastRun.elapsed >= 500 /\ lastRun.output = "ok")
              => (lastRun.result = "ok" /\ npc = "ok")
        /\ npc = "ok" => lastRun.elapsed >= 500

\* C6's case: a status-0 client was reported as a failure and retried, and a
\* later client that ran 600 ms with status 0 ended the loop with Ok.
C6_Witness ==
    /\ ~background
    /\ reclassified
    /\ sleeps # <<>>
    /\ lastRun.elapsed = 600
    /\ lastRun.output = "ok"
    /\ npc = "ok"

\* The sleep 1, 2, 4, 8, 10, 10, ... before the k-th retry.
ExpectedSleep(k) ==
    CASE k = 1 -> 1
      [] k = 2 -> 2
      [] k = 3 -> 4
      [] k = 4 -> 8
      [] OTHER -> 10

\* C7: the k-th backoff sleep of one invocation is 1, 2, 4, 8, 10, 10, ...
\* seconds, and no sleep is shorter than the one before it.
C7_BackoffSequence ==
    \A k \in DOMAIN sleeps :
        /\ sleeps[k] = ExpectedSleep(k)
        /\ k > 1 => sleeps[k] >= sleeps[k - 1]

\* C7's case: the loop has slept seven times, three of them at the cap.
C7_Witness == Len(sleeps) = 7 /\ server = "alive"

\* C8: with the server exited, the step after a client failure is the return of
\* the terminal error: no sleep is made and no client is launched, then or
\* later.
C8_ServerDeathShortCircuit ==
    [][ /\ (npc = "failed" /\ server = "exited")
            => (npc' = "err" /\ sleeps' = sleeps /\ launches' = launches)
        /\ npc = "err"
            => (npc' = "err" /\ sleeps' = sleeps /\ launches' = launches) ]_vars

\* C8's case: the server exited after the loop had retried, and the next
\* client failure ended the loop with the terminal error.
C8_Witness ==
    /\ npc = "err"
    /\ server = "exited"
    /\ Len(sleeps) >= 1
    /\ launches = Len(sleeps) + 1

\* C32: after a client failure of any kind, when try_wait on the server said
\* Ok(None) the loop sleeps the backoff and launches the client again, and the
\* failure is not returned; the loop returns an error only from a failed
\* attempt whose liveness check said the server had exited or itself failed.
C32_FailureRetriedWhileServerAlive ==
    [][/\ (npc = "failed" /\ npc' # "failed") =>
            /\ lastRun.result \in {"too_fast", "failed"}
            /\ lastRun'.liveness = "none" =>
                  (npc' = "sleeping" /\ sleeps' = Append(sleeps, retry_interval))
            /\ lastRun'.liveness # "none" =>
                  (npc' = "err" /\ lastRun'.liveness \in {"some", "err"})
       /\ (npc = "sleeping" /\ npc' # "sleeping") => npc' = "client"
       /\ (npc' = "err" /\ npc # "err") =>
            (npc = "failed" /\ lastRun'.liveness \in {"some", "err"})]_vars

\* C32's case: in foreground mode a client that exited non-zero after 600 ms
\* failed with the server confirmed alive, and the loop is in its backoff
\* sleep, having retried before.
C32_Witness ==
    /\ ~background
    /\ npc = "sleeping"
    /\ lastRun.elapsed = 600
    /\ lastRun.result = "failed"
    /\ lastRun.liveness = "none"
    /\ Len(sleeps) = 3
    /\ launches = 3

\* C33: in background mode an attempt whose client was spawned returns after
\* the fixed 500 ms, however long the client runs; a client found exited by
\* the try_wait is reported as a too-fast failure whatever its exit status,
\* and the loop does not return Ok on it; a client found running is reported
\* as success, the loop returns Ok, and the client is left running.
C33_BackgroundDecidesAfterDelay ==
    (background /\ lastRun # NoRun) =>
        /\ lastRun.output # "spawn_failed" => lastRun.elapsed = 500
        /\ lastRun.output \in {"exited_0", "exited_1"} =>
              (lastRun.result = "too_fast" /\ npc # "ok")
        /\ lastRun.output = "running" =>
              (lastRun.result = "ok" /\ npc = "ok" /\ lastRun.child = "running")
        /\ npc = "ok" => lastRun.output = "running"

\* C33's case: a background client that had exited with status 0 within the
\* 500 ms was reported as too fast and retried, and the next one, found
\* running, ended the loop with Ok.
C33_Witness ==
    /\ background
    /\ Len(sleeps) = 1
    /\ launches = 2
    /\ lastRun.output = "running"
    /\ lastRun.child = "running"
    /\ npc = "ok"

\* C33's case, the failing half: the background client last launched was found
\* exited with status 0 and is being retried.
BackgroundStatusZeroTooFast ==
    /\ background
    /\ lastRun.output = "exited_0"
    /\ lastRun.result = "too_fast"
    /\ npc = "sleeping"

\* C38: under SpecNvimLive, a foreground client that ran 500 ms or more and
\* exited with status 0, or a background client found running, makes the loop
\* return Ok; a failed attempt is followed by the backoff sleep and a new
\* attempt or by the terminal error; and once the server has exited the loop
\* ends: unless an attempt succeeds first, with the terminal error.
C38_RetryLoopLiveness ==
    /\ (lastRun.output \in {"ok", "running"} /\ lastRun.elapsed >= 500) ~> (npc = "ok")
    /\ (npc = "failed") ~> (npc \in {"client", "err", "ok"})
    /\ (npc = "sleeping") ~> (npc \in {"client", "err", "ok"})
    /\ (server = "exited") ~> (npc \in {"err", "ok"})
    /\ (server = "exited" /\ npc = "failed") ~> (npc = "err")

\* C38's case: the server exited during the third backoff sleep; the sleep
\* ended, the client launched after it failed too, and the loop returned the
\* terminal error on a liveness check that found the server gone.
C38_Witness ==
    /\ npc = "err"
    /\ server = "exited"
    /\ lastRun.liveness = "some"
    /\ Len(sleeps) = 3
    /\ launches = 4

-----------------------------------------------------------------------------
(* Properties of SpecPort                                                  *)

C11_FindTerminatesWithinProbes ==
    /\ probes <= MaxProbes
    /\ failed <= probes
    /\ ProbePorts \subseteq 50000..60000
    /\ (cpc = "returned" /\ how = "probed")
          => (probes >= 1 /\ failed = probes - 1 /\ chosen \in 50000..60000
              /\ chosen \in ProbePorts /\ chosenAvail)
    /\ (cpc = "returned" /\ how = "fallback")
          => (probes = MaxProbes /\ failed = MaxProbes)
    /\ (cpc = "probing" /\ failed = MaxProbes) => ~ENABLED FindProbe

\* C11's case: the 1000th probe was the first to bind, after 999 that failed.
C11_Witness ==
    /\ cpc = "returned"
    /\ how = "probed"
    /\ probes = MaxProbes
    /\ failed = MaxProbes - 1

-----------------------------------------------------------------------------
(* Properties of SpecCli                                                   *)

\* The command argument has the form TCP-CONNECT:ip:port, ip and port present.
MatchesPattern(target) ==
    /\ Len(target) = 3
    /\ target[1] = "TCP-CONNECT"
    /\ target[2] # ""
    /\ target[3] # ""

\* C12: every relay enumerated by the last `port ls` whose command does not
\* have the form TCP-CONNECT:ip:port is listed with container_port "unknown".
C12_UnparsableListedAsUnknown ==
    \A c \in DOMAIN listed :
        ~MatchesPattern(c.target) => listed[c].container_port = "unknown"

\* What holds of the same listing: a relay whose command has no TCP-CONNECT
\* argument at all is listed, with container_port "unknown".
NoTargetListedAsUnknown ==
    \A c \in DOMAIN listed :
        c.target[1] # "TCP-CONNECT" => listed[c].container_port = "unknown"

\* C16: when remove_all_forwarded_ports has returned, stop_forward_port was
\* attempted for every port of the listing it started from, whether or not one
\* of the stops failed.
C16_RemoveAllAttemptsEvery ==
    (cmd = "idle" /\ rmAll.result # "none") => rmAll.attempted = rmAll.listed

\* What holds of the same call: Ok means every listed port was stopped; Err
\* means it returned at the first stop that failed.
RemoveAllStopsAtFirstFailure ==
    (cmd = "idle" /\ rmAll.result # "none") =>
        /\ rmAll.attempted \subseteq rmAll.listed
        /\ rmAll.result = "ok" => (rmAll.attempted = rmAll.listed /\ rmAll.failed = {})
        /\ rmAll.result = "err" => Cardinality(rmAll.failed) = 1

\* C17: stop_forward_port(h) returns Ok iff a relay named for h was running;
\* when it returns Err the set of running relays is unchanged; a call that
\* directly follows a successful call for the same port returns Err.
C17_StopMissingRelayFails ==
    lastStop # NoStop =>
        /\ lastStop.ok <=> lastStop.existed
        /\ ~lastStop.existed => lastStop.stopped = {}
        /\ lastStop.again => ~lastStop.ok

\* C17's case: the second of two calls for the same port, made while other
\* relays were running, failed and stopped nothing.
C17_Witness ==
    /\ lastStop.again
    /\ ~lastStop.ok
    /\ lastStop.stopped = {}
    /\ containers # {}

ExplicitStop(c) ==
    \/ c \in lastStop'.stopped
    \/ c.publish \in rmAll'.attempted \ rmAll.attempted

\* C21: when a `port add` has returned Ok the relay it started is running, and
\* a relay started by `port add` goes away only in a step that stops it
\* explicitly (`port rm` of its host port, `port rm --all`): no other command
\* and no return of a command tears it down.
C21_AddedRelayOutlivesCommand ==
    [][/\ (lastCmd' # lastCmd /\ lastCmd'.kind = "add" /\ lastCmd'.result = "ok") =>
            \E c \in containers' \ containers :
                /\ c.name = socat_container_name(lastCmd'.host_port)
                /\ c.by = "manual"
       /\ \A c \in containers :
            (c.by = "manual" /\ c \notin containers') => ExplicitStop(c)]_vars

\* C21's case: `port add 3000` returned Ok, and its relay is still running
\* after a later `port ls` listed it and a later `port rm 59999` stopped
\* another relay.
C21_Witness ==
    /\ lastCmd.kind = "rm" /\ lastCmd.result = "ok" /\ lastCmd.host_port = "59999"
    /\ \E c \in containers :
         /\ c.by = "manual" /\ c.publish = "3000"
         /\ c \in DOMAIN listed

\* C24: the last `port add` / `port rm` parsed a descriptor of one field P as
\* (P, P) and one of two fields H:C as (H, C); a descriptor of three or more
\* fields was rejected, the command returned Err and no relay was started or
\* stopped by it.
C24_DescriptorParsing ==
    lastCmd.kind \in {"add", "rm"} =>
        LET d == lastCmd.descriptor IN
        /\ Len(d) = 1 => /\ lastCmd.parsed
                         /\ lastCmd.host_port = d[1]
                         /\ lastCmd.container_port = d[1]
        /\ Len(d) = 2 => /\ lastCmd.parsed
                         /\ lastCmd.host_port = d[1]
                         /\ lastCmd.container_port = d[2]
        /\ Len(d) >= 3 => /\ ~lastCmd.parsed
                          /\ lastCmd.result = "err"
                          /\ lastCmd.started = {}
                          /\ lastCmd.stopped = {}

\* C24's case: with the relay of host port 3000 running, `port rm 3000:80:tcp`
\* was rejected and left it running.
C24_Witness ==
    /\ lastCmd.kind = "rm"
    /\ lastCmd.descriptor = <<"3000", "80", "tcp">>
    /\ ~lastCmd.parsed
    /\ lastCmd.result = "err"
    /\ \E c \in containers : c.publish = "3000"

\* C35: a forward_port (of `port add`) for a host port whose relay of this
\* container is running returns Err; a forward_port that returned Err left the
\* containers exactly as they were, so the running relay is untouched and
\* nothing half-made is left; one that returned Ok added one relay and touched
\* no other; and no two containers ever carry the same relay name.
C35_ForwardCollisionFailsCleanly ==
    [][(lastCmd' # lastCmd /\ lastCmd'.kind = "add" /\ lastCmd'.parsed) =>
          /\ (\E c \in containers :
                   c.name = socat_container_name(lastCmd'.host_port)) =>
                lastCmd'.result = "err"
          /\ lastCmd'.result = "err" => containers' = containers
          /\ lastCmd'.result = "ok" =>
                /\ containers \subseteq containers'
                /\ Cardinality(containers' \ containers) = 1
          /\ \A c1, c2 \in containers' : c1.name = c2.name => c1 = c2]_vars

\* C35's case, the taken port: another process holds host port 3000, and
\* `port add 3000` returned Err with no container left.
RefusedStartLeavesNothing ==
    /\ 3000 \in hostBound
    /\ lastCmd.kind = "add"
    /\ lastCmd.descriptor = <<"3000">>
    /\ lastCmd.result = "err"
    /\ containers = {}

\* C35's case: with the relay 3000:3000 running, `port add 3000:80` returned
\* Err, and the one relay for host port 3000 is the one that was there.
C35_Witness ==
    /\ lastCmd.kind = "add"
    /\ lastCmd.descriptor = <<"3000", "80">>
    /\ lastCmd.result = "err"
    /\ \E c \in containers : c.publish = "3000" /\ c.cport = "3000" /\ c.by = "manual"
    /\ Cardinality({c \in containers : c.publish = "3000"}) = 1

-----------------------------------------------------------------------------
(* Properties of SpecSess                                                  *)

\* C13: when the call has been left with the server spawned, by whichever
\* path (client success, terminal connection failure, forward_port error,
\* Ctrl+C), kill and wait were called on the server, and what main returns
\* does not depend on whether they succeeded: Ok on success and on Ctrl+C.
C13_ServerKilledOnEveryExit ==
    spc = "done" =>
        /\ spawned => (killSent /\ waited)
        /\ spawned => exitPath \in {"success", "conn_failed", "forward_failed", "ctrl_c"}
        /\ ~spawned => (~killSent /\ exitPath \in {"spawn_failed", "ctrl_c"})
        /\ exitPath \in {"success", "ctrl_c"} => result = "ok"
        /\ exitPath \in {"conn_failed", "forward_failed"} => result = "err"

\* C13's case: the client succeeded, the deferred kill or wait failed, and the
\* call still returned Ok.
C13_Witness ==
    /\ spc = "done"
    /\ exitPath = "success"
    /\ spawned /\ killSent /\ waited
    /\ ~cleanupOk
    /\ result = "ok"

\* C14: after the call has been left, by any path, the session's relay is not
\* running when background mode is off; when background mode is on and the
\* guard was leaked, the relay is still running.
C14_RelayScopedToCall ==
    spc = "done" =>
        /\ ~background => SessionRelays = {}
        /\ (background /\ guard = "forgotten") => SessionRelays # {}

\* What holds of the same call: a guard that forward_port handed to the call is
\* dropped on every path and its relay is stopped; a leaked guard leaves the
\* relay running.
HeldGuardTornDown ==
    spc = "done" =>
        /\ guard # "held"
        /\ guard = "dropped" => SessionRelays = {}
        /\ guard = "forgotten" => (background /\ SessionRelays # {})

\* C15: when Ctrl+C fired while a client attempt or a backoff sleep was in
\* progress, the call has been left (abandoned, or over in the same poll), the
\* server was killed and waited for, the relay of a foreground session is gone,
\* and main returned Ok, not an error.
C15_CtrlCReturnsOk ==
    (spc = "done" /\ firedIn \in {"client", "sleeping"}) =>
        /\ result = "ok"
        /\ killSent /\ waited
        /\ ~background => SessionRelays = {}

\* What holds of the same signal: when the select! takes the ctrl_c branch,
\* main returns Ok, the server (if spawned) was killed and waited for, and a
\* guard the call held was dropped.
CtrlCBranchCleansUp ==
    (spc = "done" /\ exitPath = "ctrl_c") =>
        /\ result = "ok"
        /\ spawned => (killSent /\ waited)
        /\ guard # "held"

\* C22: when main has returned from direct mode (--no-remote-ui) no relay was
\* started, no server was spawned (so nothing was killed or waited for and no
\* guard exists), no port was determined, and a non-zero exit status of the
\* directly executed nvim made main return Err, status 0 made it return Ok.
C22_DirectModeNoRelayNoServer ==
    (spc \in {"direct", "main_done"} /\ neovim_args.no_remote_ui) =>
        /\ containers = {}
        /\ ~spawned /\ listen = "" /\ guard = "none"
        /\ ~killSent /\ ~waited
        /\ session_ports = NoPorts
        /\ (exitPath = "direct" /\ direct_status # 0) => result = "err"
        /\ (exitPath = "direct" /\ direct_status = 0) => result = "ok"

\* C22's case: nvim run directly exited with status 130 and main returned Err.
C22_Witness ==
    /\ spc = "main_done"
    /\ neovim_args.no_remote_ui
    /\ exitPath = "direct"
    /\ direct_status = 130
    /\ result = "err"

\* The container port --container-port asks for: its value, or 54321.
RequestedContainerPort ==
    IF neovim_args.container_port # <<>> THEN neovim_args.container_port[1] ELSE "54321"

\* C23: in a remote UI session the container port main determined, the port
\* of the server's --listen address and the target port of the session's relay
\* are the value of --container-port when it was given and 54321 otherwise,
\* whether or not --host-port was given.
C23_ContainerPortOptionHonoured ==
    /\ session_ports # NoPorts => SessionContainerPort = RequestedContainerPort
    /\ spawned => listen = RequestedContainerPort
    /\ \A c \in SessionRelays : c.cport = RequestedContainerPort

\* What holds of the same session: --container-port is honoured when
\* --host-port was given too; without --host-port the container port is 54321
\* whatever --container-port says. Server and relay use the same port.
ContainerPortHonouredWithHostPort ==
    LET want == IF neovim_args.host_port # <<>> THEN RequestedContainerPort ELSE "54321"
    IN /\ session_ports # NoPorts => SessionContainerPort = want
       /\ spawned => listen = want
       /\ \A c \in SessionRelays : c.cport = want /\ c.target = socat_target(listen)

\* C34: in a remote UI session a host port given with --host-port is the
\* session's host port as it was given, find_available_host_port is not
\* called for it, and main does not end on a failed allocation; without
\* --host-port the host port is one find_available_host_port returned, and
\* when that call failed main has returned Err with no server spawned and no
\* relay started.
C34_HostPortResolution ==
    (~neovim_args.no_remote_ui /\ spc \notin {"idle", "args"}) =>
        /\ neovim_args.host_port # <<>> =>
              /\ SessionHostPort = neovim_args.host_port[1]
              /\ ~session_ports.probed
              /\ exitPath # "no_host_port"
        /\ (neovim_args.host_port = <<>> /\ exitPath # "no_host_port") =>
              /\ session_ports.probed
              /\ \E p \in ProbePorts : SessionHostPort = ToString(p)
        /\ exitPath = "no_host_port" =>
              /\ neovim_args.host_port = <<>>
              /\ spc = "main_done" /\ result = "err"
              /\ ~spawned /\ listen = "" /\ guard = "none"
              /\ containers = {}
              /\ session_ports = NoPorts
        /\ \A c \in SessionRelays : HostPortOfName(c.name) = SessionHostPort

\* C34's case: --host-port 50000 was given while another process held port
\* 50000; the port was taken as given, the server was spawned, and it was
\* forward_port that failed.
C34_Witness ==
    /\ neovim_args.host_port = <<"50000">>
    /\ 50000 \in hostBound
    /\ SessionHostPort = "50000"
    /\ spawned
    /\ exitPath = "forward_failed"

\* C34's case, the allocation: without --host-port the allocation failed and
\* main returned Err before anything was started.
AllocationFailureAborts ==
    /\ neovim_args.host_port = <<>>
    /\ exitPath = "no_host_port"
    /\ spc = "main_done"
    /\ ~spawned

-----------------------------------------------------------------------------
(* Properties of SpecCompose                                               *)

\* The characters a normalized project name may hold.
NormalizedChars == {"a", "b", "d", "r", "v", "e", "c", "o", "n", "t", "i", "1", "-", "_"}

\* The names the sources give, each trimmed and normalized (<<>>: none).
FromEnvVar ==
    IF inputs.env = <<>> THEN <<>> ELSE normalize_project_name(trim(inputs.env[1]))

FromDotEnv ==
    IF inputs.dotenv = <<>> THEN <<>>
    ELSE LET lines == inputs.dotenv[1]
             hits == {i \in 1..Len(lines) : strip_prefix(trim(lines[i])) # <<>>}
         IN IF hits = {} THEN <<>>
            ELSE LET first == CHOOSE i \in hits : \A j \in hits : i <= j
                 IN normalize_project_name(trim(strip_prefix(trim(lines[first]))[1]))

\* The files of dockerComposeFile that can be read and define a `name`.
Defining == {i \in 1..Len(inputs.files) :
                inputs.files[i].readable /\ inputs.files[i].name # <<>>}

FromComposeFiles ==
    IF ~inputs.json_ok \/ Defining = {} THEN <<>>
    ELSE LET last == CHOOSE i \in Defining : \A j \in Defining : j <= i
         IN normalize_project_name(trim(inputs.files[last].name[1]))

C26_LastComposeNameWins ==
    (stage = "done" /\ FromEnvVar = <<>> /\ FromDotEnv = <<>> /\ inputs.json_ok
       /\ Cardinality(Defining) >= 2 /\ FromComposeFiles # <<>>) =>
        /\ project.kind = "some"
        /\ project.source = "compose"
        /\ project.name = FromComposeFiles

\* C26's case: `name: B_a` in the first file, `name: " a-1"` in the second,
\* "a-1" returned.
C26_Witness ==
    /\ stage = "done"
    /\ Len(inputs.files) = 2
    /\ inputs.files[1].name = << <<"B", "_", "a">> >>
    /\ inputs.files[2].name = << <<" ", "a", "-", "1">> >>
    /\ inputs.files[1].readable /\ inputs.files[2].readable
    /\ project = Returned("some", <<"a", "-", "1">>, "compose")

-----------------------------------------------------------------------------
(* Properties of SpecClip                                                  *)

\* C39: when spawn_clipboard_server has returned, SpawnedInfo.port is the port
\* the server task's listener is bound to, and not the initial 0, however the
\* 100 ms wait of the spawner and the task's steps were interleaved.
C39_ReportedPortIsBoundPort ==
    clip_pc \in {"returned", "shutdown"} =>
        (info_port # 0 /\ info_port = listener)

\* What holds of the same call: the port reported is the value the cell held
\* at the read, so it is the bound port exactly when the task had stored it by
\* then, and 0 otherwise; a port reported other than 0 is the bound one.
ReportedPortIsCellAtRead ==
    [][(clip_pc = "read" /\ clip_pc' = "returned") =>
          /\ info_port' = port_mutex
          /\ server_pc \in {"serving", "stopped"} => (info_port' = listener /\ listener # 0)
          /\ server_pc \notin {"serving", "stopped"} => info_port' = 0]_vars

\* The race lost and then overtaken: 0 was reported, and the server has since
\* stored its port and serves connections on it.
ReportedZeroWhileServing ==
    /\ clip_pc = "returned"
    /\ info_port = 0
    /\ server_pc = "serving"
    /\ listener # 0
    /\ accepted # <<>>

====
